---- MODULE Spec2Model ----
(***************************************************************************)
(* Verification model of the Brain alpha generator core:                   *)
(*   - the validation / repair loop   (agents/validation_loop.py)          *)
(*   - the validation gate and repair (generation/validation_gate.py)      *)
(*   - the static validator           (validation/static_validator.py)     *)
(*   - the retrieval pack builder     (retrieval/pack_builder.py)          *)
(*   - the budget shrink steps        (generation/budget.py)               *)
(* Expressions are sequences of lexemes (identifiers, number literals,     *)
(* punctuation and unsupported characters), strings are TLA+ strings.      *)
(***************************************************************************)
EXTENDS Integers, Sequences, FiniteSets, TLC

VARIABLES
    \* ---- validation loop (ValidationLoopOrchestrator.run) ----
    pc,                     \* position of run(): "start","loop","post","order","done","raised"
    max_repair_attempts,    \* self.max_repair_attempts
    stop_on_repeated_error, \* self.stop_on_repeated_error
    simulate,               \* run(simulate=...)
    expansion_policy,       \* working_pack.expansion_policy: [enabled, threshold]
    attempts,               \* local attempts
    signatures,             \* local signatures (history of error signatures)
    error_codes,            \* local error_codes of the last validation
    event_codes,            \* error_codes payloads of the failed-validation events, in order
    retrieval_expanded,     \* local retrieval_expanded
    validation_passed,      \* local validation_passed
    events,                 \* event log of the run (event types, in order)
    expand_calls,           \* number of calls of _expand_retrieval_pack in the run
    runner_calls,           \* number of calls of SimulationRunner.run_candidate
    notes,                  \* working_candidate.generation_notes
    collab,                 \* collaborators: [evaluator_bus, enforce_validation_gate]
    event_order_violation,  \* result.event_order_violation
    \* ---- gate / validator / repair ----
    validator,              \* StaticValidator: [operators, fields, safe_regular_only]
    gpack,                  \* retrieval pack seen by the gate: [fields, operators]
    expr,                   \* candidate expression (sequence of lexemes)
    alpha_type,             \* candidate.simulation_settings.type
    gphase,                 \* "input", "validated", "repaired", "synthesized"
    gissues,                \* issues of the last validation (sequence of [code, message])
    gout,                   \* expression returned by the last repair / synthesis
    \* ---- retrieval pack / budget shrink ----
    catalog,                \* metadata store rows: [datasets, fields, operators]
    rbudget,                \* RetrievalBudgetConfig
    pack,                   \* RetrievalPack (or NoPack)
    lbudget,                \* LLMBudgetConfig
    last_step,              \* enforce_alpha_prompt_budget: [kind, phase, factor, allowed,
                            \*   signature_before] of the last step taken
    pack_expansions,        \* number of expansion rebuilds of the pack
    alpha_maker,            \* LLMOrchestrator.run_alpha_maker at its budget policy:
                            \*   [pc, events, reasons]
    enforcement,            \* locals of enforce_alpha_prompt_budget: [usage, prompt,
                            \*   evaluation, fallback_count, fallback_steps,
                            \*   explore_floor_targets] and the history of its
                            \*   evaluations and loop iterations
    \* ---- event bus / telemetry of a pipeline run ----
    bus_store,              \* EventBus.store is not None
    bus_sinks,              \* EventBus._sinks (registered sinks, in order)
    event_log,              \* event_log table of the store (event types, in order)
    sink_rows,              \* rows each sink has received, in order
    bus_run,                \* the run using the bus: [pc, simulate, validation_passed,
                            \*   fault, faults, returned, call]
    \* ---- candidate and pack objects of a run (object identity) ----
    settings_heap,          \* CandidateSimulation objects, by address: [regular]
    notes_heap,             \* GenerationNotes objects, by address: [used_fields,
                            \*   used_operators, validation_passed, validation_attempts]
    packs_heap,             \* RetrievalPack objects, by address: [expanded]
    copy_run,               \* run() over the objects: [pc, candidate, retrieval_pack,
                            \*   working_candidate, working_pack, attempts]
    earlier,                \* the candidate objects of the earlier attempts, each with
                            \*   the value it had when its repair was called
    \* ---- several runs on one event log ----
    shared_log,             \* event_log table: records [run_id, event_type], in order
    run_scripts,            \* per run id: [events, expect_simulation] it will append
    run_verdicts,           \* per run id: [checked, violation], the verdict of its check
    \* ---- budget evaluation and token estimates as functions of their inputs ----
    eval_in,                \* arguments of _evaluate_budget: [prompt_chars, pack, budget,
                            \*   usage, seen_combo_keys, max_output_tokens,
                            \*   explore_floor_targets]
    eval_out,               \* the BudgetEvaluation returned, with its KPIs
    token_estimate,         \* pack.token_estimate as build_retrieval_pack stored it and
                            \*   as _sync_pack_contracts last stored it
    \* ---- alpha-maker calls of several runs on one event log ----
    day_log,                \* event_log table: rows [run_id, event_type, created_at,
                            \*   tokens], in order
    makers,                 \* per run id, its run_alpha_maker call: [pc, usage, result,
                            \*   generator_calls, first_row]
    day_budget              \* self.llm_budget of the orchestrators

loopVars == <<pc, max_repair_attempts, stop_on_repeated_error, simulate, expansion_policy,
              attempts, signatures, error_codes, event_codes, retrieval_expanded,
              validation_passed, events, expand_calls, runner_calls, notes, collab, event_order_violation>>
gateVars == <<validator, gpack, expr, alpha_type, gphase, gissues, gout>>
packVars == <<catalog, rbudget, pack, lbudget, last_step, pack_expansions, enforcement,
              alpha_maker>>
busVars == <<bus_store, bus_sinks, event_log, sink_rows, bus_run>>
copyVars == <<settings_heap, notes_heap, packs_heap, copy_run, earlier>>
runsVars == <<shared_log, run_scripts, run_verdicts>>
estimateVars == <<eval_in, eval_out, token_estimate>>
dayVars == <<day_log, makers, day_budget>>
vars == <<loopVars, gateVars, packVars, busVars, copyVars, runsVars, estimateVars, dayVars>>

(***************************************************************************)
(* Generic helpers                                                         *)
(***************************************************************************)
Max(a, b) == IF a >= b THEN a ELSE b
Min(a, b) == IF a <= b THEN a ELSE b

Range(s) == {s[i] : i \in 1..Len(s)}

SeqsUpTo(S, n) == UNION {[1..k -> S] : k \in 0..n}

\* Number of positions of s holding an element of S.
CountIn(s, S) == Cardinality({i \in 1..Len(s) : s[i] \in S})

\* The least element of a set of positions, 0 when the set is empty.
MinOrZero(S) == IF S = {} THEN 0 ELSE CHOOSE i \in S : \A j \in S : i <= j

\* list.index-like: first position >= from holding an element of S, 0 when none.
FirstPos(s, S, from) == MinOrZero({i \in from..Len(s) : s[i] \in S})

\* First position of s whose element satisfies P, 0 when none.
FirstOf(s, P(_)) == MinOrZero({i \in 1..Len(s) : P(s[i])})

AppendNew(init, x) == IF x \in Range(init) THEN init ELSE Append(init, x)

\* A list kept as it is, repetitions included.
KeepAll(s) == s

\* Order-preserving removal of later duplicates (the _unique helpers).
RECURSIVE Unique(_)
Unique(s) ==
    IF s = <<>> THEN <<>>
    ELSE AppendNew(Unique(SubSeq(s, 1, Len(s) - 1)), s[Len(s)])

(***************************************************************************)
(* Issue codes and the error signature (validation_gate.py)                *)
(***************************************************************************)
\* The error keys of VALIDATION_ERROR_TAXONOMY plus the generic fallback of
\* _map_error, listed in the order Python's sorted() puts them.
CodeOrder == << "empty_expression", "group_requires_group_and_matrix",
                "operator_arity_mismatch", "operator_empty_argument",
                "operator_no_arguments", "operator_scope_violation",
                "ts_non_matrix_input", "unbalanced_parentheses",
                "unknown_data_field", "unknown_operator",
                "unsupported_characters", "validation_error",
                "vector_used_in_non_vec" >>

Codes == Range(CodeOrder)

CodeRank(c) == CHOOSE i \in 1..Len(CodeOrder) : CodeOrder[i] = c

\* sorted(codes): insertion sort by string order, duplicates kept.
RECURSIVE InsertCode(_, _)
InsertCode(c, s) ==
    IF s = <<>> THEN <<c>>
    ELSE IF CodeRank(c) < CodeRank(s[1]) THEN <<c>> \o s
    ELSE <<s[1]>> \o InsertCode(c, Tail(s))

RECURSIVE SortedCodes(_)
SortedCodes(codes) ==
    IF codes = <<>> THEN <<>> ELSE InsertCode(codes[1], SortedCodes(Tail(codes)))

\* "|".join(parts): the parts with a "|" lexeme between neighbours.
RECURSIVE JoinBar(_)
JoinBar(parts) ==
    IF Len(parts) <= 1 THEN parts
    ELSE <<parts[1], "|">> \o JoinBar(Tail(parts))

VALID == <<"VALID">>

\* error_signature over the distinct codes only.
ErrorSignatureDedup(codes) ==
    IF codes = <<>> THEN VALID ELSE JoinBar(Unique(SortedCodes(codes)))

\* error_signature joining the codes in report order, unsorted.
ErrorSignatureUnsorted(codes) ==
    IF codes = <<>> THEN VALID ELSE JoinBar(codes)

\* error_signature of validate_candidate for the issue codes, in report order.
ErrorSignature(codes) ==
    IF codes = <<>> THEN VALID ELSE JoinBar(SortedCodes(codes))

\* The streak that never looks at the history.
RepeatStreakOfNone(history, signature) == 0

\* _repeat_streak(history, signature)
RECURSIVE RepeatStreak(_, _)
RepeatStreak(history, signature) ==
    IF signature = <<>> THEN 0
    ELSE IF history = <<>> THEN 0
    ELSE IF history[Len(history)] # signature THEN 0
    ELSE 1 + RepeatStreak(SubSeq(history, 1, Len(history) - 1), signature)


(***************************************************************************)
(* Lexemes of the expression language (static_validator.py)                *)
(* An expression is a sequence of lexemes.  Two neighbouring word lexemes  *)
(* (identifier or number) stand for the words separated by one blank, so   *)
(* that IDENT_RE sees the identifier lexemes exactly.                      *)
(***************************************************************************)
OperatorNames == {"rank", "zscore", "ts_delta", "ts_mean", "ts_stddev",
                  "group_rank", "group_zscore", "group_mean", "group_neutralize",
                  "vec_sum", "combo_a", "foo"}
FieldNames == {"close", "f1", "f2", "g1", "v1", "x9"}
Idents == OperatorNames \cup FieldNames

\* name.startswith("ts_"), name.startswith("group_"), name.startswith("vec_")
StartsWithTs(name) == name \in {"ts_delta", "ts_mean", "ts_stddev"}
StartsWithGroup(name) ==
    name \in {"group_rank", "group_zscore", "group_mean", "group_neutralize"}
StartsWithVec(name) == name \in {"vec_sum"}

NumberLexemes == {"5"}
SpaceLexeme == " "
BadLexeme == "#"              \* a character outside ALLOWED_CHAR_RE
Punctuation == {"(", ")", ","}
Lexemes == Idents \cup NumberLexemes \cup Punctuation \cup {SpaceLexeme, BadLexeme}

\* IDENT_RE.findall(text): the identifier lexemes, in order.
IdentFindAll(text) == SelectSeq(text, LAMBDA t : t \in Idents)

\* str.strip()
RECURSIVE LStrip(_)
LStrip(text) ==
    IF text # <<>> /\ text[1] = SpaceLexeme THEN LStrip(Tail(text)) ELSE text

RECURSIVE RStrip(_)
RStrip(text) ==
    IF text # <<>> /\ text[Len(text)] = SpaceLexeme
    THEN RStrip(SubSeq(text, 1, Len(text) - 1)) ELSE text

Strip(text) == RStrip(LStrip(text))

\* ALLOWED_CHAR_RE.match(expression)
AllowedChars(text) == text # <<>> /\ \A i \in 1..Len(text) : text[i] # BadLexeme

\* _balanced_parentheses(text)
RECURSIVE BalancedFrom(_, _, _)
BalancedFrom(text, idx, depth) ==
    IF idx > Len(text) THEN depth = 0
    ELSE IF text[idx] = "(" THEN BalancedFrom(text, idx + 1, depth + 1)
    ELSE IF text[idx] = ")"
         THEN IF depth - 1 < 0 THEN FALSE ELSE BalancedFrom(text, idx + 1, depth - 1)
    ELSE BalancedFrom(text, idx + 1, depth)

\* The balance test without the final "depth == 0".
RECURSIVE NeverNegativeFrom(_, _, _)
NeverNegativeFrom(text, idx, depth) ==
    IF idx > Len(text) THEN TRUE
    ELSE IF text[idx] = "(" THEN NeverNegativeFrom(text, idx + 1, depth + 1)
    ELSE IF text[idx] = ")"
         THEN IF depth - 1 < 0 THEN FALSE ELSE NeverNegativeFrom(text, idx + 1, depth - 1)
    ELSE NeverNegativeFrom(text, idx + 1, depth)

BalancedNeverNegative(text) == NeverNegativeFrom(text, 1, 0)

BalancedParentheses(text) == BalancedFrom(text, 1, 0)

\* _find_closing_paren stopping at the first ")" whatever the depth.
RECURSIVE FindFirstCloseFrom(_, _, _)
FindFirstCloseFrom(text, idx, depth) ==
    IF idx > Len(text) THEN 0
    ELSE IF text[idx] = ")" THEN idx
    ELSE FindFirstCloseFrom(text, idx + 1, depth)

\* _find_closing_paren(text, open_idx): 0 stands for -1 (positions count from 1).
RECURSIVE FindClosingFrom(_, _, _)
FindClosingFrom(text, idx, depth) ==
    IF idx > Len(text) THEN 0
    ELSE IF text[idx] = "(" THEN FindClosingFrom(text, idx + 1, depth + 1)
    ELSE IF text[idx] = ")"
         THEN IF depth - 1 = 0 THEN idx ELSE FindClosingFrom(text, idx + 1, depth - 1)
    ELSE FindClosingFrom(text, idx + 1, depth)

FindClosingParen(text, open_idx) == FindClosingFrom(text, open_idx, 0)

\* _skip_spaces(text, idx)
RECURSIVE SkipSpaces(_, _)
SkipSpaces(text, idx) ==
    IF idx <= Len(text) /\ text[idx] = SpaceLexeme THEN SkipSpaces(text, idx + 1) ELSE idx

\* _split_args(text): the loop over the characters, then the final piece.
RECURSIVE SplitLoop(_, _, _, _, _)
SplitLoop(text, i, depth, start, args) ==
    IF i > Len(text) THEN [args |-> args, start |-> start]
    ELSE IF text[i] = "(" THEN SplitLoop(text, i + 1, depth + 1, start, args)
    ELSE IF text[i] = ")" THEN SplitLoop(text, i + 1, depth - 1, start, args)
    ELSE IF text[i] = "," /\ depth = 0
         THEN SplitLoop(text, i + 1, depth, i + 1,
                        Append(args, Strip(SubSeq(text, start, i - 1))))
    ELSE SplitLoop(text, i + 1, depth, start, args)

\* _split_args: the final piece and the "single empty argument" rule.
SplitResult(args) == IF Len(args) = 1 /\ args[1] = <<>> THEN <<>> ELSE args

SplitFinal(text, args, final) ==
    SplitResult(IF final # <<>> \/ Strip(text) = <<>> THEN Append(args, final) ELSE args)

SplitFinish(text, r) == SplitFinal(text, r.args, Strip(SubSeq(text, r.start, Len(text))))

SplitArgs(text) == SplitFinish(text, SplitLoop(text, 1, 0, 1, <<>>))

\* _extract_calls(text): the calls of the text, nested ones included, as
\* records [name, args] in the order the scanner appends them.
RECURSIVE ExtractCallsFrom(_, _)
RECURSIVE CallsOfArgs(_, _)
RECURSIVE CallAt(_, _, _)
RECURSIVE CallClosed(_, _, _, _)
RECURSIVE CallWithArgs(_, _, _)
ExtractCallsFrom(text, idx) ==
    IF idx > Len(text) THEN <<>>
    ELSE IF text[idx] \notin Idents THEN ExtractCallsFrom(text, idx + 1)
    ELSE CallAt(text, idx, SkipSpaces(text, idx + 1))

\* an identifier at idx; next_idx is the position after the blanks behind it
CallAt(text, idx, next_idx) ==
    IF next_idx > Len(text) \/ text[next_idx] # "("
    THEN ExtractCallsFrom(text, idx + 1)
    ELSE CallClosed(text, idx, next_idx, FindClosingParen(text, next_idx))

CallClosed(text, idx, next_idx, end_idx) ==
    IF end_idx = 0
    THEN ExtractCallsFrom(text, next_idx + 1)
    ELSE CallWithArgs(text[idx], SplitArgs(SubSeq(text, next_idx + 1, end_idx - 1)),
                      ExtractCallsFrom(text, end_idx + 1))

\* the call, then the calls nested in its arguments, then the rest of the text
CallWithArgs(name, args, rest) ==
    <<[name |-> name, args |-> args]>> \o CallsOfArgs(args, 1) \o rest

CallsOfArgs(args, k) ==
    IF k > Len(args) THEN <<>>
    ELSE ExtractCallsFrom(args[k], 1) \o CallsOfArgs(args, k + 1)

ExtractCalls(text) == ExtractCallsFrom(text, 1)

\* _extract_identifiers_from_args(args)
RECURSIVE IdentifiersFromArgs(_)
IdentifiersFromArgs(args) ==
    IF args = <<>> THEN <<>>
    ELSE IdentFindAll(args[1]) \o IdentifiersFromArgs(Tail(args))


(***************************************************************************)
(* StaticValidator (static_validator.py)                                   *)
(* A validator is [operators, fields, safe_regular_only]: operators is the *)
(* sequence of rows [name, scope, arity] (arity NoArity when the row       *)
(* declares none), fields the sequence of rows [id, type], both in dict    *)
(* order.                                                                  *)
(***************************************************************************)
NoArity == -1
NoName == "<none>"          \* Python None for a name / id / expression

Msg(kind, op, fld, expected, got) ==
    [kind |-> kind, op |-> op, field |-> fld, expected |-> expected, got |-> got]

OperatorKnown(v, name) == \E i \in 1..Len(v.operators) : v.operators[i].name = name
OperatorRow(v, name) ==
    v.operators[CHOOSE i \in 1..Len(v.operators) : v.operators[i].name = name]
FieldKnown(v, id) == \E i \in 1..Len(v.fields) : v.fields[i].id = id
\* self.field_types[id]
FieldType(v, id) == v.fields[CHOOSE i \in 1..Len(v.fields) : v.fields[i].id = id].type

IsRegular(atype) == atype = "REGULAR"

\* The body of the "for call in calls" loop of validate for a known operator.
KnownCallErrors(call, atype, row, safe_regular_only) ==
    (IF call.args = <<>> THEN <<Msg("no_arguments", call.name, "", 0, 0)>> ELSE <<>>)
    \o (IF \E i \in 1..Len(call.args) : Strip(call.args[i]) = <<>>
        THEN <<Msg("empty_argument", call.name, "", 0, 0)>> ELSE <<>>)
    \o (IF row.arity # NoArity /\ Len(call.args) # row.arity
        THEN <<Msg("arity", call.name, "", row.arity, Len(call.args))>> ELSE <<>>)
    \o (IF row.scope # {}
        THEN IF IsRegular(atype) /\ "REGULAR" \notin row.scope
             THEN <<Msg("scope_not_regular", call.name, "", 0, 0)>> ELSE <<>>
        ELSE IF safe_regular_only /\ ~IsRegular(atype)
             THEN <<Msg("scope_unknown_blocked", call.name, "", 0, 0)>> ELSE <<>>)

\* The body of the "for call in calls" loop of validate for one call.
CallErrors(v, call, atype) ==
    IF ~OperatorKnown(v, call.name)
    THEN <<Msg("unknown_operator", call.name, "", 0, 0)>>
    ELSE KnownCallErrors(call, atype, OperatorRow(v, call.name), v.safe_regular_only)

RECURSIVE AllCallErrors(_, _, _)
AllCallErrors(v, calls, atype) ==
    IF calls = <<>> THEN <<>>
    ELSE CallErrors(v, calls[1], atype) \o AllCallErrors(v, Tail(calls), atype)

\* One message of the given kind per field of the list.
MsgEach(kind, op, flds) == [i \in 1..Len(flds) |-> Msg(kind, op, flds[i], 0, 0)]

\* The per-call body of _type_checks, arg_ids being the known fields of the arguments.
TypeErrorsOfArgs(v, name, arg_ids) ==
    (IF StartsWithTs(name)
     THEN MsgEach("ts_non_matrix", name,
                  SelectSeq(arg_ids, LAMBDA f : FieldType(v, f) # ""
                                                /\ FieldType(v, f) # "MATRIX"))
     ELSE <<>>)
    \o (IF StartsWithGroup(name)
           /\ ~(/\ \E i \in 1..Len(arg_ids) : FieldType(v, arg_ids[i]) = "GROUP"
                /\ \E i \in 1..Len(arg_ids) : FieldType(v, arg_ids[i]) = "MATRIX")
        THEN <<Msg("group_requires", name, "", 0, 0)>> ELSE <<>>)
    \o (IF arg_ids # <<>> /\ ~StartsWithVec(name)
        THEN MsgEach("vector_non_vec", name,
                     SelectSeq(arg_ids, LAMBDA f : FieldType(v, f) = "VECTOR"))
        ELSE <<>>)

TypeErrorsOfCall(v, call) ==
    TypeErrorsOfArgs(v, call.name,
                     SelectSeq(IdentifiersFromArgs(call.args), LAMBDA t : FieldKnown(v, t)))

RECURSIVE TypeChecks(_, _)
TypeChecks(v, calls) ==
    IF calls = <<>> THEN <<>>
    ELSE TypeErrorsOfCall(v, calls[1]) \o TypeChecks(v, Tail(calls))

CallNames(calls) == [i \in 1..Len(calls) |-> calls[i].name]

\* ValidationReport(is_valid, errors, used_operators, used_fields)
ValidationReport(errors, used_operators, used_fields) ==
    [is_valid |-> errors = <<>>, errors |-> Unique(errors),
     used_operators |-> used_operators, used_fields |-> used_fields]

\* validate from the field existence checks on; used_fields are the
\* identifiers of the expression that are no operator of a call.
ValidateFields(v, expression, atype, calls, used_operators, used_fields) ==
    ValidationReport(
        (IF ~AllowedChars(expression)
         THEN <<Msg("unsupported_characters", "", "", 0, 0)>> ELSE <<>>)
        \o (IF ~BalancedParentheses(expression)
            THEN <<Msg("unbalanced", "", "", 0, 0)>> ELSE <<>>)
        \o AllCallErrors(v, calls, atype)
        \o MsgEach("unknown_field", "", SelectSeq(used_fields, LAMBDA f : ~FieldKnown(v, f)))
        \o TypeChecks(v, calls),
        used_operators,
        SelectSeq(used_fields, LAMBDA f : FieldKnown(v, f)))

ValidateOperators(v, expression, atype, calls, used_operators) ==
    ValidateFields(v, expression, atype, calls, used_operators,
                   SelectSeq(Unique(IdentFindAll(expression)),
                             LAMBDA t : t \notin Range(used_operators)))

ValidateCalls(v, expression, atype, calls) ==
    ValidateOperators(v, expression, atype, calls, Unique(CallNames(calls)))

\* StaticValidator.validate(expression, alpha_type=atype)
Validate(v, expression, atype) ==
    IF Strip(expression) = <<>>
    THEN [is_valid |-> FALSE, errors |-> <<Msg("empty", "", "", 0, 0)>>,
          used_operators |-> <<>>, used_fields |-> <<>>]
    ELSE ValidateCalls(v, expression, atype, ExtractCalls(expression))


(***************************************************************************)
(* ValidationGate (validation_gate.py)                                     *)
(***************************************************************************)
\* The taxonomy rows in list order: the first row whose pattern matches wins.
TaxonomyOrder == << "empty_expression", "unsupported_characters", "unbalanced_parentheses",
                    "unknown_operator", "unknown_data_field", "operator_no_arguments",
                    "operator_empty_argument", "operator_arity_mismatch",
                    "operator_scope_violation", "ts_non_matrix_input",
                    "group_requires_group_and_matrix", "vector_used_in_non_vec" >>

\* pattern.search(text) for the row `key` and the text of message m.  The
\* names inside a message are identifiers, so they never complete a pattern.
PatternMatches(key, m) ==
    \/ key = "empty_expression" /\ m.kind = "empty"
    \/ key = "unsupported_characters" /\ m.kind = "unsupported_characters"
    \/ key = "unbalanced_parentheses" /\ m.kind = "unbalanced"
    \/ key = "unknown_operator" /\ m.kind = "unknown_operator"
    \/ key = "unknown_data_field" /\ m.kind = "unknown_field"
    \/ key = "operator_no_arguments" /\ m.kind = "no_arguments"
    \/ key = "operator_empty_argument" /\ m.kind = "empty_argument"
    \/ key = "operator_arity_mismatch" /\ m.kind = "arity"
    \/ key = "operator_scope_violation" /\ m.kind = "scope_not_regular"
    \/ key = "ts_non_matrix_input" /\ m.kind = "ts_non_matrix"
    \/ key = "group_requires_group_and_matrix" /\ m.kind = "group_requires"
    \/ key = "vector_used_in_non_vec" /\ m.kind = "vector_non_vec"

\* _map_error(message): the issue [code, message]; k is the first matching row.
MapErrorAt(m, k) ==
    [code |-> IF k = 0 THEN "validation_error" ELSE TaxonomyOrder[k], message |-> m]

MapError(m) ==
    MapErrorAt(m, MinOrZero({i \in 1..Len(TaxonomyOrder) : PatternMatches(TaxonomyOrder[i], m)}))

\* classify_errors(errors)
ClassifyErrors(errors) == [i \in 1..Len(errors) |-> MapError(errors[i])]

IssueCodes(issues) == [i \in 1..Len(issues) |-> issues[i].code]

\* ValidationGateResult(report, issues, error_signature) and its is_valid
ValidationGateResult(report, issues) ==
    [report |-> report, issues |-> issues,
     error_signature |-> ErrorSignature(IssueCodes(issues)),
     is_valid |-> report.is_valid]

GateResultOf(report) == ValidationGateResult(report, ClassifyErrors(report.errors))

\* validate_candidate(candidate) for a candidate whose expression and type are given.
ValidateCandidate(v, expression, atype) == GateResultOf(Validate(v, expression, atype))

\* The name a name-extracting pattern captures in a message of its kind.
CapturedName(kind, m) ==
    IF kind \in {"unknown_operator", "scope_not_regular"} THEN m.op ELSE m.field

CapturedNames(kind, hit) == [k \in 1..Len(hit) |-> CapturedName(kind, hit[k].message)]

\* _extract_all(pattern, messages) for the five name-extracting patterns: the
\* names of the messages the pattern matches, first occurrences in order.
ExtractAll(kind, issues) ==
    Unique(CapturedNames(kind, SelectSeq(issues, LAMBDA i : i.message.kind = kind)))

ScopeAllowsRegular(scope) == scope = {} \/ "REGULAR" \in scope

PreferredOperators == <<"rank", "zscore", "ts_delta", "ts_mean", "ts_stddev">>

\* Python's "a or b" on names, NoName being None.
OrElse(a, b) == IF a # NoName THEN a ELSE b

\* s[k] for a position k found, else the default.
ElemOr(s, k, default) == IF k # 0 THEN s[k] ELSE default
NameOr(rows, k, default) == IF k # 0 THEN rows[k].name ELSE default
IdOr(rows, k, default) == IF k # 0 THEN rows[k].id ELSE default

\* The candidates list of _pick_regular_operator.
RegularCandidates(p, exclude) ==
    CallNames(SelectSeq(p.candidate_operators,
                        LAMBDA op : op.name \notin exclude /\ ScopeAllowsRegular(op.scope)))

\* _pick_regular_operator after the candidates list is built.
PickFromCandidates(v, exclude, candidates) ==
    ElemOr(PreferredOperators,
           FirstOf(PreferredOperators, LAMBDA n : n \in Range(candidates)),
           ElemOr(candidates, IF candidates # <<>> THEN 1 ELSE 0,
                  ElemOr(PreferredOperators,
                         FirstOf(PreferredOperators,
                                 LAMBDA n : OperatorKnown(v, n)
                                            /\ ScopeAllowsRegular(OperatorRow(v, n).scope)),
                         NameOr(v.operators,
                                FirstOf(v.operators,
                                        LAMBDA row : row.name \notin exclude
                                                     /\ ScopeAllowsRegular(row.scope)),
                                NoName))))

\* _pick_regular_operator(retrieval_pack, exclude=exclude)
PickRegularOperator(v, p, exclude) ==
    PickFromCandidates(v, exclude, RegularCandidates(p, exclude))

\* _fallback_field_from_validator(preferred_type=ptype); ptype "" is None.
FallbackFieldFromValidator(v, ptype) ==
    IdOr(v.fields, FirstOf(v.fields, LAMBDA f : ptype # "" /\ f.type = ptype),
         IdOr(v.fields, IF v.fields # <<>> THEN 1 ELSE 0, NoName))

\* _pick_field_id that never falls back to the validator catalog.
PickFieldIdPackOnly(v, p, ptype) ==
    IdOr(p.candidate_fields,
         FirstOf(p.candidate_fields, LAMBDA f : ptype # "" /\ f.type = ptype),
         IdOr(p.candidate_fields, IF p.candidate_fields # <<>> THEN 1 ELSE 0, NoName))

\* _pick_field_id(retrieval_pack, preferred_type=ptype); ptype "" is None.
PickFieldId(v, p, ptype) ==
    IdOr(p.candidate_fields,
         FirstOf(p.candidate_fields, LAMBDA f : ptype # "" /\ f.type = ptype),
         IdOr(p.candidate_fields, IF p.candidate_fields # <<>> THEN 1 ELSE 0,
              FallbackFieldFromValidator(v, ptype)))

PackOperatorNames(p) == {p.candidate_operators[i].name : i \in 1..Len(p.candidate_operators)}
PackFieldIds(p) == {p.candidate_fields[i].id : i \in 1..Len(p.candidate_fields)}

Call1(op, a) == <<op, "(", a, ")">>
Call2(op, a, b) == <<op, "(", a, ",", SpaceLexeme, b, ")">>
Nested(op, inner) == <<op, "(">> \o inner \o <<")">>

ValidRegular(v, expression) == Validate(v, expression, "REGULAR").is_valid

\* any_field = matrix_field or self._pick_field_id(retrieval_pack) or "close"
AnyField(v, p) == OrElse(PickFieldId(v, p, "MATRIX"), OrElse(PickFieldId(v, p, ""), "close"))

\* The template list of _synthesize_expression: rows [expr, required_ops].
TemplatesFor(matrix_field, group_field, any_field) ==
    (IF matrix_field # NoName /\ group_field # NoName
     THEN <<[expr |-> Call2("group_rank", matrix_field, group_field),
             required_ops |-> {"group_rank"}]>>
     ELSE <<>>)
    \o << [expr |-> Nested("rank", Call2("ts_delta", any_field, "5")),
           required_ops |-> {"rank", "ts_delta"}],
          [expr |-> Nested("zscore", Call2("ts_delta", any_field, "5")),
           required_ops |-> {"zscore", "ts_delta"}],
          [expr |-> Call2("ts_delta", any_field, "5"), required_ops |-> {"ts_delta"}],
          [expr |-> Call1("rank", any_field), required_ops |-> {"rank"}],
          [expr |-> Call1("zscore", any_field), required_ops |-> {"zscore"}] >>

SynthesisTemplates(v, p) ==
    TemplatesFor(PickFieldId(v, p, "MATRIX"), PickFieldId(v, p, "GROUP"), AnyField(v, p))

\* The first template whose operators the pack holds and that validates.
FirstInPack(v, p, templates) ==
    FirstOf(templates, LAMBDA t : t.required_ops \subseteq PackOperatorNames(p)
                                  /\ ValidRegular(v, t.expr))

\* The first template that validates against the validator's operator rows.
FirstKnown(v, templates) == FirstOf(templates, LAMBDA t : ValidRegular(v, t.expr))

\* The "final deterministic fallback" of _synthesize_expression.
FinalFallback(v, any_field, fallback_field) ==
    IF ValidRegular(v, <<any_field>>) THEN <<any_field>>
    ELSE IF fallback_field # NoName /\ ValidRegular(v, Call1("rank", fallback_field))
         THEN Call1("rank", fallback_field)
    ELSE IF fallback_field # NoName /\ ValidRegular(v, <<fallback_field>>)
         THEN <<fallback_field>>
    ELSE <<any_field>>

ExprOr(templates, k, default) == IF k # 0 THEN templates[k].expr ELSE default

\* _synthesize_expression without the validator-catalog fallback: when no
\* template validates it returns any_field.
SynthesizeNoCatalogFallback(v, p, templates) ==
    ExprOr(templates, FirstInPack(v, p, templates),
           ExprOr(templates, FirstKnown(v, templates), <<AnyField(v, p)>>))

\* _synthesize_expression returning the first template whose operators the
\* pack holds, without validating it.
SynthesizeUnchecked(v, p, templates) ==
    ExprOr(templates,
           FirstOf(templates, LAMBDA t : t.required_ops \subseteq PackOperatorNames(p)),
           templates[Len(templates)].expr)

\* _synthesize_expression after the template list is built.
SynthesizeFrom(v, p, templates) ==
    ExprOr(templates, FirstInPack(v, p, templates),
           ExprOr(templates, FirstKnown(v, templates),
                  FinalFallback(v, AnyField(v, p), FallbackFieldFromValidator(v, "MATRIX"))))

\* _synthesize_expression(retrieval_pack)
SynthesizeExpression(v, p) == SynthesizeFrom(v, p, SynthesisTemplates(v, p))

GroupOperatorCandidates == <<"group_rank", "group_zscore", "group_mean", "group_neutralize">>

\* _build_group_expression after the two fields are picked; <<>> stands for None.
GroupExpressionFor(v, p, matrix_field, group_field) ==
    IF matrix_field = NoName \/ group_field = NoName THEN <<>>
    ELSE ExprOr([i \in 1..Len(GroupOperatorCandidates) |->
                    [expr |-> Call2(GroupOperatorCandidates[i], matrix_field, group_field)]],
                FirstOf(GroupOperatorCandidates,
                        LAMBDA op : op \in PackOperatorNames(p)
                                    /\ ValidRegular(v, Call2(op, matrix_field, group_field))),
                <<>>)

\* _build_group_expression(retrieval_pack)
BuildGroupExpression(v, p) ==
    GroupExpressionFor(v, p, PickFieldId(v, p, "MATRIX"), PickFieldId(v, p, "GROUP"))

\* Python's "a or b" on expressions, <<>> being None or the empty string.
ExprOrElse(a, b) == IF a # <<>> THEN a ELSE b

\* re.sub(r"[^A-Za-z0-9_.,()\-+*/\s]", "", expression)
StripUnsupported(expression) == SelectSeq(expression, LAMBDA t : t # BadLexeme)

\* re.sub(rf"\b{unknown}(?=\s*\()", replacement, expression)
ReplaceOperatorToken(expression, unknown, replacement) ==
    [i \in 1..Len(expression) |->
        IF expression[i] = unknown
           /\ SkipSpaces(expression, i + 1) <= Len(expression)
           /\ expression[SkipSpaces(expression, i + 1)] = "("
        THEN replacement ELSE expression[i]]

\* _replace_identifier(expression, source, target)
ReplaceIdentifier(expression, source, target) ==
    IF source = NoName \/ target = NoName \/ source = target THEN expression
    ELSE [i \in 1..Len(expression) |->
            IF expression[i] = source THEN target ELSE expression[i]]

RECURSIVE ReplaceOperators(_, _, _)
ReplaceOperators(expression, names, replacement) ==
    IF names = <<>> \/ replacement = NoName THEN expression
    ELSE ReplaceOperators(ReplaceOperatorToken(expression, names[1], replacement),
                          Tail(names), replacement)

RECURSIVE ReplaceIdentifiers(_, _, _)
ReplaceIdentifiers(expression, names, replacement) ==
    IF names = <<>> \/ replacement = NoName THEN expression
    ELSE ReplaceIdentifiers(ReplaceIdentifier(expression, names[1], replacement),
                            Tail(names), replacement)

StructuralCodes == {"operator_no_arguments", "operator_empty_argument",
                    "operator_arity_mismatch", "unbalanced_parentheses"}

\* repair_candidate: "if not expression.strip() or 'empty_expression' in codes"
RepairEmpty(v, p, expression, codes) ==
    IF Strip(expression) = <<>> \/ "empty_expression" \in codes
    THEN SynthesizeExpression(v, p) ELSE expression

\* repair_candidate: the re.sub of the unsupported characters
RepairCharacters(expression, codes) ==
    IF "unsupported_characters" \in codes THEN StripUnsupported(expression) ELSE expression

\* repair_candidate: the replacement of the operators named by messages of the kind
RepairOperators(v, p, expression, names) ==
    ReplaceOperators(expression, names, PickRegularOperator(v, p, Range(names)))

\* repair_candidate: the replacement of the fields named by messages of the kind
RepairFields(v, p, expression, names) ==
    ReplaceIdentifiers(expression, names, PickFieldId(v, p, "MATRIX"))

\* repair_candidate: the group / structural rewrite and the final strip
RepairStructure(v, p, expression, codes) ==
    Strip(IF "group_requires_group_and_matrix" \in codes
          THEN ExprOrElse(BuildGroupExpression(v, p), SynthesizeExpression(v, p))
          ELSE IF codes \cap StructuralCodes # {} THEN SynthesizeExpression(v, p)
          ELSE expression)

\* The heuristic edits of repair_candidate, up to repaired.regular = expression.strip().
HeuristicEdits(v, p, expression, issues, codes) ==
    RepairStructure(v, p,
      RepairFields(v, p,
        RepairFields(v, p,
          RepairFields(v, p,
            RepairOperators(v, p,
              RepairOperators(v, p,
                RepairCharacters(RepairEmpty(v, p, expression, codes), codes),
                ExtractAll("unknown_operator", issues)),
              ExtractAll("scope_not_regular", issues)),
            ExtractAll("unknown_field", issues)),
          ExtractAll("ts_non_matrix", issues)),
        ExtractAll("vector_non_vec", issues)),
      codes)

HeuristicRepair(v, p, expression, issues) ==
    HeuristicEdits(v, p, expression, issues, Range(IssueCodes(issues)))

\* repair_candidate without the last-resort fallback.
RepairNoFallback(v, p, regular) == regular

\* repair_candidate: the last-resort fallback on the heuristically edited expression
LastResort(v, p, regular) ==
    IF ~ValidRegular(v, regular) THEN SynthesizeExpression(v, p) ELSE regular

\* repair_candidate returning the candidate as it was.
RepairKeepsExpression(v, p, expression, issues) == expression

\* repair_candidate(candidate, issues, retrieval_pack): the repaired
\* simulation_settings.regular.
RepairExpression(v, p, expression, issues) ==
    LastResort(v, p, HeuristicRepair(v, p, expression, issues))


(***************************************************************************)
(* Validation loop (validation_loop.py)                                    *)
(***************************************************************************)
\* _expansion_enabled(pack), _expansion_threshold(pack) on the pack's policy
ExpansionEnabled(policy) == policy.enabled
ExpansionThreshold(policy) == Max(1, policy.trigger)

\* The attempts test with > in place of >=, allowing one more repair.
AttemptsExhaustedLate(a, m) == a > m

\* run(): "if attempts >= self.max_repair_attempts: break"
AttemptsExhausted(a, m) == a >= m

\* The expansion guard without the once-per-run flag.
ExpansionDueAgain(expanded, policy, repeat_count) ==
    ExpansionEnabled(policy) /\ repeat_count >= ExpansionThreshold(policy)

\* run(): the guard of the retrieval expansion branch
ExpansionDue(expanded, policy, repeat_count) ==
    (~expanded) /\ ExpansionEnabled(policy) /\ repeat_count >= ExpansionThreshold(policy)

\* A loop that never aborts on repeated errors.
AbortNever(stop, policy, repeat_count) == FALSE

\* run(): the guard of the repeated-error abort (the elif branch)
AbortDue(stop, policy, repeat_count) ==
    stop /\ repeat_count >= ExpansionThreshold(policy)

\* _expand_retrieval_pack: the expansion policy of the rebuilt pack
ExpandedPolicy(policy) ==
    [enabled |-> ExpansionEnabled(policy), trigger |-> ExpansionThreshold(policy)]

\* _first_index(values, keys, start): 0 stands for -1 (positions count from 1).
FirstIndex(values, keys, start) == FirstPos(values, keys, Max(1, start))

\* The retry check applied to the last validation.retry_started only.
RetryOrderOfLast(evs) ==
    \E idx \in 1..Len(evs) :
        /\ evs[idx] = "validation.retry_started"
        /\ \A k \in (idx + 1)..Len(evs) :
              evs[k] \notin {"validation.retry_started", "validation.retry_failed",
                             "validation.retry_passed"}

\* _retry_order_violation(events)
RetryOrderViolation(evs) ==
    \E idx \in 1..Len(evs) :
        /\ evs[idx] = "validation.retry_started"
        /\ LET next_retry == FirstIndex(evs, {"validation.retry_started"}, idx + 1)
               end == IF next_retry = 0 THEN Len(evs) + 1 ELSE next_retry
           IN ~\E k \in (idx + 1)..(end - 1) :
                  evs[k] \in {"validation.retry_failed", "validation.retry_passed"}

\* The start check that forgets the missing events (index -1).
StartOrderOfPresent(evs) ==
    /\ FirstIndex(evs, {"agent.alpha_generated"}, 1) # 0
    /\ FirstIndex(evs, {"validation.started"}, 1) # 0
    /\ FirstIndex(evs, {"agent.alpha_generated"}, 1)
          >= FirstIndex(evs, {"validation.started"}, 1)

\* _detect_event_order_violation: "alpha_idx == -1 or validation_start_idx == -1
\* or alpha_idx >= validation_start_idx"
StartOrderViolation(evs) ==
    \/ FirstIndex(evs, {"agent.alpha_generated"}, 1) = 0
    \/ FirstIndex(evs, {"validation.started"}, 1) = 0
    \/ FirstIndex(evs, {"agent.alpha_generated"}, 1)
          >= FirstIndex(evs, {"validation.started"}, 1)

\* The simulation check without the order of enqueued and started.
SimulationOrderOfPresent(evs) ==
    \/ FirstIndex(evs, {"simulation.enqueued"}, 1) = 0
    \/ FirstIndex(evs, {"simulation.started"}, 1) = 0
    \/ /\ FirstIndex(evs, {"simulation.completed", "simulation_completed"}, 1) # 0
       /\ FirstIndex(evs, {"simulation.started"}, 1)
             >= FirstIndex(evs, {"simulation.completed", "simulation_completed"}, 1)

\* _detect_event_order_violation: the three tests under "if not
\* duplicate_only_path" (lines 398-404)
SimulationOrderViolation(evs) ==
    \/ FirstIndex(evs, {"simulation.enqueued"}, 1) = 0
    \/ FirstIndex(evs, {"simulation.started"}, 1) = 0
    \/ FirstIndex(evs, {"simulation.enqueued"}, 1)
          >= FirstIndex(evs, {"simulation.started"}, 1)
    \/ /\ FirstIndex(evs, {"simulation.completed", "simulation_completed"}, 1) # 0
       /\ FirstIndex(evs, {"simulation.started"}, 1)
             >= FirstIndex(evs, {"simulation.completed", "simulation_completed"}, 1)

\* _detect_event_order_violation(run_id, expect_simulation) on the run's log
DetectEventOrderViolation(evs, expect_simulation) ==
    LET validation_start_idx == FirstIndex(evs, {"validation.started"}, 1)
        terminal_idx == FirstIndex(evs, {"validation.failed", "validation.passed"},
                                   validation_start_idx + 1)
        passed == \E i \in 1..Len(evs) :
                      evs[i] \in {"validation.passed", "validation.retry_passed"}
        completed_idx == FirstIndex(evs, {"simulation.completed", "simulation_completed"}, 1)
        enqueued_idx == FirstIndex(evs, {"simulation.enqueued"}, 1)
        started_idx == FirstIndex(evs, {"simulation.started"}, 1)
        skipped_idx == FirstIndex(evs, {"simulation_skipped_duplicate"}, 1)
        duplicate_only_path == skipped_idx # 0 /\ enqueued_idx = 0
                               /\ started_idx = 0 /\ completed_idx = 0
        evaluation_idx == FirstIndex(evs, {"evaluation.completed"}, 1)
    IN IF evs = <<>> THEN TRUE
       ELSE IF StartOrderViolation(evs) THEN TRUE
       ELSE IF terminal_idx = 0 THEN TRUE
       ELSE IF RetryOrderViolation(evs) THEN TRUE
       ELSE IF passed /\ expect_simulation /\ ~duplicate_only_path
               /\ SimulationOrderViolation(evs)
       THEN TRUE
       ELSE IF ~(passed /\ expect_simulation)
               /\ (enqueued_idx # 0 \/ started_idx # 0 \/ completed_idx # 0)
       THEN TRUE
       ELSE IF evaluation_idx = 0 THEN TRUE
       ELSE IF completed_idx # 0 /\ evaluation_idx <= completed_idx THEN TRUE
       ELSE IF skipped_idx # 0 /\ completed_idx = 0 /\ evaluation_idx <= skipped_idx THEN TRUE
       ELSE IF completed_idx = 0 /\ evaluation_idx <= terminal_idx THEN TRUE
       ELSE FALSE

\* Evaluator.evaluate -> _emit_completed_event: published when the evaluator has a bus
EvaluationEvents == IF collab.evaluator_bus THEN <<"evaluation.completed">> ELSE <<>>

\* SimulationRunner._validation_gate_allows(candidate)
ValidationGateAllows(enforce, candidate_notes) ==
    (~enforce) \/ candidate_notes.validation_passed

\* The simulation guard without the validation verdict.
SimulationWantedAlways(passed, sim) == sim

\* run(): "if validation_passed and simulate"
SimulationWanted(passed, sim) == passed /\ sim


\* ---- bounds of the loop inputs ----
MaxRepairBound == 3        \* max_repair_attempts ranges over 0..MaxRepairBound
MaxTrigger == 2            \* trigger_on_repeated_validation_error ranges over 0..MaxTrigger

\* Issue-code lists a validation may report in the loop specification.
GateOutcomes == { <<>>,
                  <<"unknown_operator">>,
                  <<"unknown_operator", "unknown_operator">>,
                  <<"unknown_operator", "unknown_data_field">>,
                  <<"unknown_data_field", "unknown_operator">> }

IdleGate ==
    /\ validator = [operators |-> <<>>, fields |-> <<>>, safe_regular_only |-> TRUE]
    /\ gpack = [candidate_fields |-> <<>>, candidate_operators |-> <<>>]
    /\ expr = <<>>
    /\ alpha_type = "REGULAR"
    /\ gphase = "idle"
    /\ gissues = <<>>
    /\ gout = <<>>

NoPack == [built |-> FALSE]

NoEnforcement == [started |-> FALSE]

NoPolicy == [pc |-> "idle", events |-> <<>>, reasons |-> {}]

IdlePack ==
    /\ catalog = [subcategory_score |-> <<>>, datasets |-> <<>>, fields |-> <<>>,
                  operators |-> <<>>]
    /\ rbudget = [exploit |-> [subcategories |-> 0, datasets |-> 0, fields |-> 0,
                               operators |-> 0],
                  explore |-> [subcategories |-> 0, datasets |-> 0, fields |-> 0,
                               operators |-> 0]]
    /\ pack = NoPack
    /\ lbudget = [min_explore_candidates_per_batch |-> 0, explore_ratio |-> 0]
    /\ last_step = [kind |-> "none", phase |-> 0, factor |-> 0, allowed |-> FALSE,
                    signature_before |-> <<>>]
    /\ pack_expansions = 0
    /\ enforcement = NoEnforcement
    /\ alpha_maker = NoPolicy

Sinks == {"terminal", "recorder"}

NoCall == [made |-> FALSE]

IdleBus ==
    /\ bus_store = FALSE
    /\ bus_sinks = <<>>
    /\ event_log = <<>>
    /\ sink_rows = [s \in Sinks |-> <<>>]
    /\ bus_run = [pc |-> "idle", simulate |-> FALSE, validation_passed |-> FALSE,
                  fault |-> "none", faults |-> 0, returned |-> <<>>, call |-> NoCall]

NoObject == 0

IdleCopy ==
    /\ settings_heap = <<>>
    /\ notes_heap = <<>>
    /\ packs_heap = <<>>
    /\ copy_run = [pc |-> "idle", candidate |-> NoObject, retrieval_pack |-> NoObject,
                   working_candidate |-> NoObject, working_pack |-> NoObject,
                   attempts |-> 0]
    /\ earlier = <<>>

IdleRuns ==
    /\ shared_log = <<>>
    /\ run_scripts = <<>>
    /\ run_verdicts = <<>>

NoEvaluation == [evaluated |-> FALSE]
NoEstimate == [input_chars |-> 0, input_tokens_rough |-> 0]

IdleEstimate ==
    /\ eval_in = <<>>
    /\ eval_out = NoEvaluation
    /\ token_estimate = [built |-> NoEstimate, synced |-> NoEstimate]

IdleDay ==
    /\ day_log = <<>>
    /\ makers = <<>>
    /\ day_budget = <<>>

IdleLoop ==
    /\ pc = "idle"
    /\ max_repair_attempts = 0
    /\ stop_on_repeated_error = FALSE
    /\ simulate = FALSE
    /\ expansion_policy = [enabled |-> FALSE, trigger |-> 0]
    /\ attempts = 0
    /\ signatures = <<>>
    /\ error_codes = <<>>
    /\ event_codes = <<>>
    /\ retrieval_expanded = FALSE
    /\ validation_passed = FALSE
    /\ events = <<>>
    /\ expand_calls = 0
    /\ runner_calls = 0
    /\ notes = [validation_passed |-> FALSE, validation_attempts |-> 0]
    /\ collab = [evaluator_bus |-> TRUE, enforce_validation_gate |-> FALSE]
    /\ event_order_violation = FALSE

\* State at entry of run(): constructor arguments, run arguments, the log so far.
InitLoop ==
    /\ pc = "start"
    /\ max_repair_attempts \in 0..MaxRepairBound
    /\ stop_on_repeated_error \in BOOLEAN
    /\ simulate \in BOOLEAN
    /\ expansion_policy \in [enabled : BOOLEAN, trigger : 0..MaxTrigger]
    /\ attempts = 0
    /\ signatures = <<>>
    /\ error_codes = <<>>
    /\ event_codes = <<>>
    /\ retrieval_expanded = FALSE
    /\ validation_passed = FALSE
    /\ events \in {<<>>, <<"agent.alpha_generated">>}
    /\ expand_calls = 0
    /\ runner_calls = 0
    /\ notes = [validation_passed |-> FALSE, validation_attempts |-> 0]
    \* the runner enforces its validation gate (with the flag off it skips the test)
    /\ collab \in [evaluator_bus : BOOLEAN, enforce_validation_gate : {TRUE}]
    /\ event_order_violation = FALSE
    /\ IdleGate
    /\ IdlePack
    /\ IdleBus
    /\ IdleCopy
    /\ IdleRuns
    /\ IdleEstimate
    /\ IdleDay

\* run(): lines 89-110, the copies and the validation.started event
LoopStart ==
    /\ pc = "start"
    /\ pc' = "loop"
    /\ events' = Append(events, "validation.started")
    /\ UNCHANGED <<max_repair_attempts, stop_on_repeated_error, simulate, expansion_policy,
                   attempts, signatures, error_codes, event_codes, retrieval_expanded,
                   validation_passed,
                   expand_calls, runner_calls, notes, collab, event_order_violation>>

\* run(): one pass of the while loop (lines 113-222) for a validation that
\* reports the issue codes `codes`; rebuild_ok tells whether the pack rebuild of
\* the expansion branch returns (build_retrieval_pack raises without datasets).
LoopIterate(codes, rebuild_ok) ==
    LET signature == ErrorSignature(codes)
        repeat_count == RepeatStreak(signatures, signature)
                        + (IF signature = VALID THEN 0 ELSE 1)
        failed == Append(events, IF attempts = 0 THEN "validation.failed"
                                 ELSE "validation.retry_failed")
    IN
    /\ pc = "loop"
    /\ error_codes' = codes
    /\ IF codes = <<>>
       THEN /\ events' = Append(events, IF attempts = 0 THEN "validation.passed"
                                        ELSE "validation.retry_passed")
            /\ validation_passed' = TRUE
            /\ pc' = "post"
            /\ UNCHANGED <<attempts, signatures, event_codes, retrieval_expanded,
                           expand_calls, expansion_policy>>
       ELSE /\ signatures' = Append(signatures, signature)
            /\ event_codes' = Append(event_codes, codes)
            /\ UNCHANGED validation_passed
            /\ IF AttemptsExhausted(attempts, max_repair_attempts)
               THEN /\ events' = failed
                    /\ pc' = "post"
                    /\ UNCHANGED <<attempts, retrieval_expanded, expand_calls,
                                   expansion_policy>>
               ELSE /\ attempts' = attempts + 1
                    /\ IF ExpansionDue(retrieval_expanded, expansion_policy, repeat_count)
                       THEN /\ expand_calls' = expand_calls + 1
                            /\ IF rebuild_ok
                               THEN /\ expansion_policy' = ExpandedPolicy(expansion_policy)
                                    /\ retrieval_expanded' = TRUE
                                    /\ events' = failed \o <<"validation.retrieval_expanded",
                                                             "validation.retry_started">>
                                    /\ pc' = "loop"
                               ELSE /\ events' = failed
                                    /\ pc' = "raised"
                                    /\ UNCHANGED <<expansion_policy, retrieval_expanded>>
                       ELSE /\ UNCHANGED <<expand_calls, expansion_policy,
                                           retrieval_expanded>>
                            /\ IF AbortDue(stop_on_repeated_error, expansion_policy,
                                           repeat_count)
                               THEN /\ events' = Append(failed,
                                            "validation.retry_aborted_repeated_error")
                                    /\ pc' = "post"
                               ELSE /\ events' = Append(failed, "validation.retry_started")
                                    /\ pc' = "loop"
    /\ UNCHANGED <<max_repair_attempts, stop_on_repeated_error, simulate, runner_calls,
                   notes, collab, event_order_violation>>

\* A runner that logs the start of a simulation before its enqueueing.
RunCandidateEventsStartedFirst(candidate_notes, outcome) ==
    IF ~ValidationGateAllows(collab.enforce_validation_gate, candidate_notes)
    THEN <<"simulation.blocked_validation">>
    ELSE IF outcome = "duplicate" THEN <<"simulation_skipped_duplicate">>
    ELSE IF outcome = "raises" THEN <<"simulation.started", "simulation.enqueued">>
    ELSE <<"simulation.started", "simulation.enqueued",
           "simulation.completed", "simulation_completed">>

\* SimulationRunner.run_candidate(candidate): the events it appends and whether
\* it returns; outcome is what the store and the simulation service do.
RunCandidateEvents(candidate_notes, outcome) ==
    IF ~ValidationGateAllows(collab.enforce_validation_gate, candidate_notes)
    THEN <<"simulation.blocked_validation">>
    ELSE IF outcome = "duplicate" THEN <<"simulation_skipped_duplicate">>
    ELSE IF outcome = "raises" THEN <<"simulation.enqueued", "simulation.started">>
    ELSE <<"simulation.enqueued", "simulation.started",
           "simulation.completed", "simulation_completed">>

RunCandidateReturns(candidate_notes, outcome) ==
    (~ValidationGateAllows(collab.enforce_validation_gate, candidate_notes))
    \/ outcome # "raises"

\* run(): lines 224-301, the notes, then simulation and evaluation
LoopPost(outcome) ==
    LET new_notes == [validation_passed |-> validation_passed,
                      validation_attempts |-> attempts + 1]
    IN
    /\ pc = "post"
    /\ notes' = new_notes
    /\ IF SimulationWanted(validation_passed, simulate)
       THEN /\ runner_calls' = runner_calls + 1
            /\ IF RunCandidateReturns(new_notes, outcome)
               THEN /\ events' = events \o RunCandidateEvents(new_notes, outcome)
                                        \o EvaluationEvents
                    /\ pc' = "order"
               ELSE /\ events' = events \o RunCandidateEvents(new_notes, outcome)
                    /\ pc' = "raised"
       ELSE /\ outcome = "completed"
            /\ UNCHANGED runner_calls
            /\ events' = events
                         \o <<IF validation_passed THEN "simulation.skipped_by_option"
                              ELSE "simulation.blocked_validation">>
                         \o EvaluationEvents
            /\ pc' = "order"
    /\ UNCHANGED <<max_repair_attempts, stop_on_repeated_error, simulate, expansion_policy,
                   attempts, signatures, error_codes, event_codes, retrieval_expanded,
                   validation_passed,
                   expand_calls, collab, event_order_violation>>

\* The closing events of a run that stops at the violation event.
SummaryEventsBlocked(violation) ==
    IF violation THEN <<"validation.event_order_violation">> ELSE <<"run.summary">>

\* run(): lines 307-338, the events published after the event order check
SummaryEvents(violation) ==
    (IF violation THEN <<"validation.event_order_violation">> ELSE <<>>)
    \o <<"run.summary">>

\* run(): lines 303-339, the event order check and the run summary
LoopSummary ==
    LET violation == DetectEventOrderViolation(events, simulate /\ validation_passed)
    IN
    /\ pc = "order"
    /\ event_order_violation' = violation
    /\ events' = events \o SummaryEvents(violation)
    /\ pc' = "done"
    /\ UNCHANGED <<max_repair_attempts, stop_on_repeated_error, simulate, expansion_policy,
                   attempts, signatures, error_codes, event_codes, retrieval_expanded,
                   validation_passed,
                   expand_calls, runner_calls, notes, collab>>

RunnerOutcomes == {"completed", "duplicate", "raises"}

NextLoop ==
    \/ LoopStart /\ UNCHANGED <<gateVars, packVars, busVars, copyVars, runsVars, estimateVars, dayVars>>
    \/ (\E codes \in GateOutcomes, rebuild_ok \in BOOLEAN : LoopIterate(codes, rebuild_ok))
       /\ UNCHANGED <<gateVars, packVars, busVars, copyVars, runsVars, estimateVars, dayVars>>
    \/ (\E outcome \in RunnerOutcomes : LoopPost(outcome)) /\ UNCHANGED <<gateVars, packVars, busVars, copyVars, runsVars, estimateVars, dayVars>>
    \/ LoopSummary /\ UNCHANGED <<gateVars, packVars, busVars, copyVars, runsVars, estimateVars, dayVars>>

SpecLoop == InitLoop /\ [][NextLoop]_vars


(***************************************************************************)
(* Properties of the validation loop                                       *)
(***************************************************************************)
ValidationEvents == {"validation.passed", "validation.failed",
                     "validation.retry_passed", "validation.retry_failed"}
SimulationLifecycle == {"simulation.enqueued", "simulation.started",
                        "simulation.completed", "simulation_completed"}

Validations == CountIn(events, ValidationEvents)
RetriesStarted == CountIn(events, {"validation.retry_started"})
Expansions == CountIn(events, {"validation.retrieval_expanded"})

C1_Bounded ==
    /\ Validations <= max_repair_attempts + 1
    /\ RetriesStarted <= max_repair_attempts
    /\ RetriesStarted <= attempts
    /\ (pc = "loop" => Validations = attempts /\ attempts <= max_repair_attempts)

\* C1: run() terminates for any sequence of gate outcomes: it performs at most
\* max_repair_attempts + 1 validations and starts at most max_repair_attempts
\* repairs, and every pass of the loop either leaves the loop (passed, attempts
\* exhausted, aborted, or the pack rebuild raised) or uses up one of the attempts.
C1_LoopTerminates ==
    /\ [](C1_Bounded)
    /\ [][pc = "loop" => (pc' # "loop" \/ attempts' = attempts + 1)]_vars

\* C1 witness: a run that used every attempt, max_repair_attempts repairs and
\* max_repair_attempts + 1 validations, and ended failed.
C1_Witness ==
    /\ pc = "done"
    /\ max_repair_attempts = MaxRepairBound
    /\ RetriesStarted = max_repair_attempts
    /\ Validations = max_repair_attempts + 1
    /\ ~validation_passed

\* C2: in one run the retrieval expansion (pack rebuild and
\* validation.retrieval_expanded event) happens at most once.
C2_ExpansionAtMostOnce == Expansions <= 1 /\ expand_calls <= 1

\* C2 witness: a finished run that expanded once and then failed again with the
\* same signature at or above the threshold, with repairs still going on.
C2_Witness ==
    /\ pc = "done"
    /\ Expansions = 1
    /\ Len(signatures) = 4
    /\ \A i \in 1..Len(signatures) : signatures[i] = signatures[1]
    /\ RetriesStarted = 3

\* C3: the simulation runner is invoked only when validation passed and simulate
\* is true; a run whose validation did not pass has no simulation.enqueued,
\* simulation.started or simulation.completed event.
C3_SimulationOnlyAfterPass ==
    /\ (runner_calls > 0 => validation_passed /\ simulate)
    /\ (~validation_passed => CountIn(events, SimulationLifecycle) = 0)

\* C3 witness: a finished run with simulate requested whose validation failed
\* and whose simulation was blocked.
C3_Witness ==
    /\ pc = "done"
    /\ simulate
    /\ ~validation_passed
    /\ CountIn(events, {"simulation.blocked_validation"}) = 1
    /\ runner_calls = 0


\* Number of occurrences of code c in a list of issue codes.
Occurrences(codes, c) == CountIn(codes, {c})

SameCodeSet(a, b) == Range(a) = Range(b)
SameCodeCounts(a, b) ==
    \A c \in Range(a) \cup Range(b) : Occurrences(a, c) = Occurrences(b, c)

\* C7 as stated: two failed validations of a run get the same signature exactly
\* when their sets of issue codes are equal, whatever the order of the codes and
\* however many errors map to one code.
C7_SignatureOfCodeSet ==
    \A j \in 1..Len(signatures) : \A i \in 1..(j - 1) :
        SameCodeSet(event_codes[i], event_codes[j]) <=> signatures[i] = signatures[j]

\* C7 amended: the signature is the sorted join of the issue codes with repeated
\* codes kept: two failed validations get the same signature exactly when every
\* code occurs equally often in both (whatever the order), so different code
\* sets always give different signatures, and a passing validation (no issue)
\* is the only one with the signature VALID.
C7_SignatureOfCodeCounts ==
    /\ Len(event_codes) = Len(signatures)
    /\ \A j \in 1..Len(signatures) : \A i \in 1..(j - 1) :
          /\ SameCodeCounts(event_codes[i], event_codes[j]) <=> signatures[i] = signatures[j]
          /\ ~SameCodeSet(event_codes[i], event_codes[j]) => signatures[i] # signatures[j]
    /\ \A i \in 1..Len(signatures) : signatures[i] # VALID
    /\ (pc \in {"loop", "post"} /\ error_codes = <<>> /\ validation_passed
          => ErrorSignature(error_codes) = VALID)

\* C7 witness: one run saw the same two codes in both orders, and the same
\* code once and twice.
C7_Witness ==
    \E i, j, k, l \in 1..Len(signatures) :
        /\ event_codes[i] = <<"unknown_operator", "unknown_data_field">>
        /\ event_codes[j] = <<"unknown_data_field", "unknown_operator">>
        /\ event_codes[k] = <<"unknown_operator">>
        /\ event_codes[l] = <<"unknown_operator", "unknown_operator">>
        /\ signatures[i] = signatures[j]
        /\ signatures[k] # signatures[l]


(***************************************************************************)
(* The gate on its own: validate, repair, validate again, synthesize       *)
(***************************************************************************)
OpRow(name, scope, arity) == [name |-> name, scope |-> scope, arity |-> arity]
FieldRow(id, type) == [id |-> id, type |-> type]
PackOp(name, scope) == [name |-> name, scope |-> scope]

\* Validators: a full catalog; one without data fields; one whose rank takes
\* two arguments and whose first field is a VECTOR; one with GROUP fields only
\* and operators of undeclared scope.
GateValidators ==
    { [operators |-> << OpRow("rank", {"REGULAR"}, 1), OpRow("zscore", {}, NoArity),
                        OpRow("ts_delta", {"REGULAR"}, 2),
                        OpRow("group_rank", {"REGULAR"}, 2),
                        OpRow("combo_a", {"COMBO"}, 1), OpRow("vec_sum", {"REGULAR"}, 1) >>,
       fields |-> << FieldRow("close", "MATRIX"), FieldRow("f1", "MATRIX"),
                     FieldRow("g1", "GROUP"), FieldRow("v1", "VECTOR") >>,
       safe_regular_only |-> TRUE],
      [operators |-> << OpRow("combo_a", {"COMBO"}, 1) >>,
       fields |-> <<>>,
       safe_regular_only |-> TRUE],
      [operators |-> << OpRow("rank", {"REGULAR"}, 2), OpRow("ts_mean", {}, NoArity) >>,
       fields |-> << FieldRow("v1", "VECTOR"), FieldRow("f2", "MATRIX") >>,
       safe_regular_only |-> FALSE],
      [operators |-> << OpRow("zscore", {}, 1), OpRow("group_mean", {}, 2) >>,
       fields |-> << FieldRow("g1", "GROUP") >>,
       safe_regular_only |-> TRUE] }

\* Retrieval packs as the gate reads them: candidate fields [id, type] and
\* candidate operators [name, scope], in list order.
GatePacks ==
    { [candidate_fields |-> <<>>, candidate_operators |-> <<>>],
      [candidate_fields |-> << FieldRow("f1", "MATRIX"), FieldRow("g1", "GROUP") >>,
       candidate_operators |-> << PackOp("group_rank", {"REGULAR"}), PackOp("rank", {"REGULAR"}),
                                  PackOp("ts_delta", {"REGULAR"}) >>],
      [candidate_fields |-> << FieldRow("x9", "MATRIX") >>,
       candidate_operators |-> << PackOp("combo_a", {"COMBO"}), PackOp("foo", {}) >>],
      [candidate_fields |-> << FieldRow("v1", "VECTOR") >>,
       candidate_operators |-> << PackOp("zscore", {}) >>] }

\* Candidate expressions, valid and broken in each way the validator reports.
GateExpressions ==
    { <<>>, <<SpaceLexeme>>, <<"f1">>, <<"x9">>,
      Call1("rank", "f1"), Call1("rank", "x9"), Call1("rank", "close"),
      Call1("foo", "f1"), Call1("foo", "x9"), Call1("zscore", "g1"),
      Call2("rank", "f1", "f2"), Call2("ts_delta", "f1", "5"),
      Call2("ts_delta", "v1", "5"), Call2("ts_delta", "g1", "5"),
      Call2("group_rank", "f1", "g1"), Call2("group_rank", "f1", "close"),
      Call2("group_mean", "g1", "x9"),
      Call1("rank", "v1"), Call1("vec_sum", "v1"), Call1("combo_a", "f1"),
      <<"rank", "(", ")">>, <<"rank", "(", "f1", ",", ")">>,
      <<"rank", "(", "f1">>, <<"rank", "(", "close">>,
      <<"rank", "(", BadLexeme, "f1", ")">>,
      <<"f1", ")">>,
      Nested("zscore", Call2("ts_delta", "close", "5")),
      Nested("foo", Call1("combo_a", "x9")),
      Nested("rank", Call1("foo", "f1")),
      <<SpaceLexeme, "rank", SpaceLexeme, "(", SpaceLexeme, "f1", SpaceLexeme, ")">>,
      Call2("foo", "x9", "f2") }

AlphaTypes == {"REGULAR", "SUPER"}

InitGate ==
    /\ validator \in GateValidators
    /\ gpack \in GatePacks
    /\ expr \in GateExpressions
    /\ alpha_type \in AlphaTypes
    /\ gphase = "input"
    /\ gissues = <<>>
    /\ gout = <<>>
    /\ IdleLoop
    /\ IdlePack
    /\ IdleBus
    /\ IdleCopy
    /\ IdleRuns
    /\ IdleEstimate
    /\ IdleDay

\* gate.validate_candidate(candidate): the first validation of the candidate
GateValidate ==
    /\ gphase = "input"
    /\ gissues' = ValidateCandidate(validator, expr, alpha_type).issues
    /\ gphase' = "validated"
    /\ UNCHANGED <<validator, gpack, expr, alpha_type, gout>>

\* gate.repair_candidate(candidate, issues, retrieval_pack) with the issues of
\* the last validation; the repaired candidate replaces the working candidate.
GateRepair ==
    /\ gphase \in {"validated", "revalidated"}
    /\ gissues # <<>>
    /\ gout' = RepairExpression(validator, gpack, expr, gissues)
    /\ gphase' = "repaired"
    /\ UNCHANGED <<validator, gpack, expr, alpha_type, gissues>>

\* gate.validate_candidate on the repaired candidate (the next loop pass)
GateRevalidate ==
    /\ gphase = "repaired"
    /\ expr' = gout
    /\ gissues' = ValidateCandidate(validator, gout, alpha_type).issues
    /\ gphase' = "revalidated"
    /\ UNCHANGED <<validator, gpack, alpha_type, gout>>

\* gate._synthesize_expression(retrieval_pack)
GateSynthesize ==
    /\ gphase = "input"
    /\ gout' = SynthesizeExpression(validator, gpack)
    /\ gphase' = "synthesized"
    /\ UNCHANGED <<validator, gpack, expr, alpha_type, gissues>>

NextGate ==
    \/ GateValidate /\ UNCHANGED <<loopVars, packVars, busVars, copyVars, runsVars, estimateVars, dayVars>>
    \/ GateRepair /\ UNCHANGED <<loopVars, packVars, busVars, copyVars, runsVars, estimateVars, dayVars>>
    \/ GateRevalidate /\ UNCHANGED <<loopVars, packVars, busVars, copyVars, runsVars, estimateVars, dayVars>>
    \/ GateSynthesize /\ UNCHANGED <<loopVars, packVars, busVars, copyVars, runsVars, estimateVars, dayVars>>

SpecGate == InitGate /\ [][NextGate]_vars


(***************************************************************************)
(* Properties of the gate                                                  *)
(***************************************************************************)
ValidatorFieldIds(v) == {v.fields[i].id : i \in 1..Len(v.fields)}
ValidatorOperatorNames(v) == {v.operators[i].name : i \in 1..Len(v.operators)}
Identifiers(expression) == Range(IdentFindAll(expression))
PackVocabulary(p) == PackFieldIds(p) \cup PackOperatorNames(p)
ValidatorVocabulary(v) == ValidatorFieldIds(v) \cup ValidatorOperatorNames(v)

\* C8 as stated: every identifier of the expression returned by
\* repair_candidate is a candidate field id or a candidate operator name of
\* the pack.
C8_RepairUsesPackOnly ==
    gphase = "repaired" => Identifiers(gout) \subseteq PackVocabulary(gpack)

\* C8 amended: every identifier of the expression returned by repair_candidate
\* is a candidate field id or candidate operator name of the pack, or a field id
\* or operator name of the validator's catalog, or the default field "close".
C8_RepairUsesKnownVocabulary ==
    gphase = "repaired" =>
        Identifiers(gout) \subseteq
            (PackVocabulary(gpack) \cup ValidatorVocabulary(validator) \cup {"close"})

\* C8 witness: a repair that replaced an unknown operator and an unknown field
\* and returned an expression with vocabulary of the validator that the pack
\* does not hold.
C8_Witness ==
    /\ gphase = "repaired"
    /\ gout # expr
    /\ \E i \in 1..Len(gissues) : gissues[i].code = "unknown_operator"
    /\ \E i \in 1..Len(gissues) : gissues[i].code = "unknown_data_field"
    /\ Identifiers(gout) # {}
    /\ ~(Identifiers(gout) \subseteq PackVocabulary(gpack))
    /\ Identifiers(gout) \subseteq ValidatorVocabulary(validator)

\* C9 as stated: for a pack with at least one candidate field the synthesized
\* expression passes static validation for REGULAR.
C9_SynthesisValidForPackWithField ==
    gphase = "synthesized" /\ gpack.candidate_fields # <<>>
        => Validate(validator, gout, "REGULAR").is_valid

\* C9 amended: for a pack with at least one candidate field and a validator
\* whose field catalog is not empty, the synthesized expression passes static
\* validation for REGULAR.
C9_SynthesisValidForKnownFields ==
    gphase = "synthesized" /\ gpack.candidate_fields # <<>> /\ validator.fields # <<>>
        => Validate(validator, gout, "REGULAR").is_valid

\* C9 witness: synthesis for a pack whose only field the validator does not
\* know fell back to a field of the validator's catalog, and validates.
C9_Witness ==
    /\ gphase = "synthesized"
    /\ gpack.candidate_fields # <<>>
    /\ PackFieldIds(gpack) \cap ValidatorFieldIds(validator) = {}
    /\ validator.fields # <<>>
    /\ Identifiers(gout) \cap ValidatorFieldIds(validator) # {}
    /\ Validate(validator, gout, "REGULAR").is_valid

\* C10 as stated: the expression returned by repair_candidate passes static
\* validation, and the loop's validation of a repaired candidate reports no
\* issue.
C10_RepairAlwaysValid ==
    /\ gphase = "repaired" => Validate(validator, gout, alpha_type).is_valid
    /\ gphase = "revalidated" => gissues = <<>>

\* C10 amended: when the validator's field catalog is not empty, the expression
\* returned by repair_candidate passes static validation for alpha type
\* REGULAR, so the loop's validation of a repaired REGULAR candidate reports no
\* issue.
C10_RepairValidForRegular ==
    /\ gphase = "repaired" /\ validator.fields # <<>>
          => Validate(validator, gout, "REGULAR").is_valid
    /\ gphase = "revalidated" /\ validator.fields # <<>> /\ alpha_type = "REGULAR"
          => gissues = <<>>

\* C10 witness: the heuristic edits left an invalid expression, the last-resort
\* synthesis replaced it, and the validation of the repaired candidate passed.
C10_Witness ==
    /\ gphase = "revalidated"
    /\ alpha_type = "REGULAR"
    /\ validator.fields # <<>>
    /\ gissues = <<>>
    /\ expr = gout
    /\ \E e \in GateExpressions :
          LET issues == ValidateCandidate(validator, e, alpha_type).issues
          IN /\ issues # <<>>
             /\ ~ValidRegular(validator, HeuristicRepair(validator, gpack, e, issues))
             /\ gout = RepairExpression(validator, gpack, e, issues)

\* The expression "rank(close" of scenario B.
RankCloseOpen == <<"rank", "(", "close">>

HasMatrixField(p) == \E i \in 1..Len(p.candidate_fields) : p.candidate_fields[i].type = "MATRIX"

\* The id of the first MATRIX-typed candidate field of the pack.
FirstMatrixField(p) ==
    p.candidate_fields[FirstOf(p.candidate_fields, LAMBDA f : f.type = "MATRIX")].id

\* The validation of rank(close reported unbalanced_parentheses.
UnbalancedReported ==
    (expr = RankCloseOpen /\ gphase = "validated") =>
        "unbalanced_parentheses" \in Range(IssueCodes(gissues))

\* C17 as stated: rank(close is reported with unbalanced_parentheses, and its
\* repair is a synthesized expression over the first MATRIX-typed field of
\* the pack that passes validation.
C17_UnbalancedRepairedOverPackField ==
    /\ UnbalancedReported
    /\ (expr = RankCloseOpen /\ gphase = "repaired" /\ HasMatrixField(gpack)) =>
          /\ gout = SynthesizeExpression(validator, gpack)
          /\ FirstMatrixField(gpack) \in Identifiers(gout)
          /\ Validate(validator, gout, "REGULAR").is_valid

\* C17 amended: rank(close is reported with unbalanced_parentheses and its
\* repair is the expression _synthesize_expression returns for the pack; when
\* the validator's catalog knows the first MATRIX-typed field of the pack,
\* that expression uses this field and passes validation for REGULAR.
C17_UnbalancedRepairedBySynthesis ==
    /\ UnbalancedReported
    /\ (expr = RankCloseOpen /\ gphase = "repaired") =>
          /\ gout = SynthesizeExpression(validator, gpack)
          /\ (HasMatrixField(gpack) /\ FieldKnown(validator, FirstMatrixField(gpack))) =>
                /\ FirstMatrixField(gpack) \in Identifiers(gout)
                /\ Validate(validator, gout, "REGULAR").is_valid

\* rank(close was repaired to a valid expression over the pack's first MATRIX
\* field f1.
C17_Witness ==
    /\ expr = RankCloseOpen
    /\ gphase = "repaired"
    /\ HasMatrixField(gpack)
    /\ FieldKnown(validator, FirstMatrixField(gpack))
    /\ "f1" \in Identifiers(gout)
    /\ gout # expr
    /\ Validate(validator, gout, "REGULAR").is_valid

\* ======================================================================
\* Retrieval pack builder (retrieval/pack_builder.py)
\* ======================================================================

\* Sort keys are pairs, compared as Python compares tuples.
KeyAbove(x, y) == x[1] > y[1] \/ (x[1] = y[1] /\ x[2] > y[2])

RECURSIVE InsertByKey(_, _, _)
InsertByKey(sorted, row, key) ==
    IF sorted = <<>> THEN <<row>>
    ELSE IF KeyAbove(key[row], key[Head(sorted)]) THEN <<row>> \o sorted
    ELSE <<Head(sorted)>> \o InsertByKey(Tail(sorted), row, key)

\* sorted(rows, key=..., reverse=True): stable, larger keys first.
RECURSIVE SortedReverse(_, _)
SortedReverse(rows, key) ==
    IF rows = <<>> THEN <<>>
    ELSE InsertByKey(SortedReverse(SubSeq(rows, 1, Len(rows) - 1), key), rows[Len(rows)], key)

\* rows[:k] of Python for k >= 0.
Take(rows, k) == SubSeq(rows, 1, Min(k, Len(rows)))

\* The loop "for row in ranked: out.append(row); if len(out) >= k: break".
AppendUntil(ranked, k) == IF ranked = <<>> THEN <<>> ELSE Take(ranked, Max(1, k))

Filter(rows, keep) == SelectSeq(rows, LAMBDA r : r \in keep)

RECURSIVE UniqueBy(_, _, _)
UniqueBy(rows, seen, field) ==
    IF rows = <<>> THEN <<>>
    ELSE IF Head(rows)[field] \in seen THEN UniqueBy(Tail(rows), seen, field)
    ELSE <<Head(rows)>> \o UniqueBy(Tail(rows), seen \cup {Head(rows)[field]}, field)

MergeUniqueModels(first, second, field) == UniqueBy(first \o second, {}, field)

MergeUnique(first, second) == Unique(first \o second)

Column(rows, field) == [i \in 1..Len(rows) |-> rows[i][field]]

OrderedUnique(values) == Unique(values)

InLane(rows, lane) == SelectSeq(rows, LAMBDA r : r.lane = lane)

Tagged(rows, lane, fields) ==
    [i \in 1..Len(rows) |-> [f \in fields \cup {"lane"} |->
                                IF f = "lane" THEN lane ELSE rows[i][f]]]

\* _rank_subcategories: one card per subcategory of the datasets, ranked by
\* (score, dataset_count), larger first.
SubcategoryCardsOf(c, ids) ==
    [i \in 1..Len(ids) |->
        [id |-> ids[i],
         score |-> c.subcategory_score[ids[i]],
         dataset_count |-> Len(SelectSeq(c.datasets, LAMBDA d : d.subcategory_id = ids[i]))]]

SubcategoryCards(c) == SubcategoryCardsOf(c, OrderedUnique(Column(c.datasets, "subcategory_id")))

RankedBy(cards) ==
    SortedReverse(cards, [r \in Range(cards) |-> <<r.score, r.dataset_count>>])

RankSubcategories(c) == RankedBy(SubcategoryCards(c))

\* _select_subcategories
RemainingSubcategories(ranked, exploit) ==
    SortedReverse(SelectSeq(ranked, LAMBDA r : r.id \notin Range(exploit)),
                  [r \in Range(ranked) |-> <<0 - r.dataset_count, r.score>>])

ExploreOrLast(exploit, explore) ==
    IF explore = <<>> /\ exploit # <<>> THEN <<exploit[Len(exploit)]>> ELSE explore

SelectSubcategoriesFrom(ranked, exploit, b) ==
    [exploit |-> exploit,
     explore |-> ExploreOrLast(exploit,
                    Column(AppendUntil(RemainingSubcategories(ranked, exploit),
                                       Max(1, b.explore.subcategories)), "id"))]

SelectSubcategories(ranked, b) ==
    SelectSubcategoriesFrom(ranked,
        Column(AppendUntil(ranked, Max(1, b.exploit.subcategories)), "id"), b)

\* _select_datasets_by_lane
DatasetFields == {"id", "subcategory_id"}

RowsOrAll(rows, all) == IF rows = <<>> THEN all ELSE rows

DatasetLanePick(c, subcats, k, lane) ==
    Tagged(AppendUntil(
               SortedReverse(
                   RowsOrAll(SelectSeq(c.datasets, LAMBDA d : d.subcategory_id \in Range(subcats)),
                             c.datasets),
                   [d \in Range(c.datasets) |-> <<d.score, d.fieldCount>>]),
               k),
           lane, DatasetFields)

DatasetFallback(c, b, exploit) ==
    Tagged(AppendUntil(
               SelectSeq(SortedReverse(c.datasets,
                             [d \in Range(c.datasets) |-> <<0 - d.fieldCount, d.valueScore>>]),
                         LAMBDA d : d.id \notin Range(Column(exploit, "id"))),
               b.explore.datasets),
           "explore", DatasetFields)

DatasetsByLane(c, b, exploit, explore) ==
    [exploit |-> exploit,
     explore |-> IF explore = <<>> THEN DatasetFallback(c, b, exploit) ELSE explore]

SelectDatasetsByLane(c, b, subcats) ==
    DatasetsByLane(c, b,
        DatasetLanePick(c, subcats.exploit, b.exploit.datasets, "exploit"),
        DatasetLanePick(c, subcats.explore, b.explore.datasets, "explore"))

\* _select_fields_by_lane
FieldFields == {"id", "dataset_id"}

LaneDatasetIds(c, ids) ==
    IF ids = {} THEN Range(Column(c.fields, "dataset_id")) ELSE ids

FieldLanePick(c, lane_dataset_ids, k, lane) ==
    Tagged(AppendUntil(
               UniqueBy(SortedReverse(
                            SelectSeq(c.fields, LAMBDA f : f.dataset_id \in lane_dataset_ids),
                            [f \in Range(c.fields) |-> <<f.score, f.type_priority>>]),
                        {}, "id"),
               k),
           lane, FieldFields)

FieldFallback(c, b, exploit) ==
    Tagged(AppendUntil(
               SelectSeq(SortedReverse(c.fields,
                             [f \in Range(c.fields) |-> <<0 - f.alphaCount, 0>>]),
                         LAMBDA f : f.id \notin Range(Column(exploit, "id"))),
               b.explore.fields),
           "explore", FieldFields)

FieldsByLane(c, b, exploit, explore) ==
    [exploit |-> exploit,
     explore |-> IF explore = <<>> THEN FieldFallback(c, b, exploit) ELSE explore]

SelectFieldsByLane(c, b, datasets_by_lane) ==
    FieldsByLane(c, b,
        FieldLanePick(c, LaneDatasetIds(c, Range(Column(datasets_by_lane.exploit, "id"))),
                      b.exploit.fields, "exploit"),
        FieldLanePick(c, LaneDatasetIds(c, Range(Column(datasets_by_lane.explore, "id"))),
                      b.explore.fields, "explore"))

\* _select_operators_by_lane
OperatorFields == {"name"}

CategoryCount(rows, category) == Len(SelectSeq(rows, LAMBDA o : o.category = category))

ByName(rows) == UniqueBy(rows, {}, "name")

RankedOperators(rows) ==
    SortedReverse(rows, [o \in Range(rows) |-> <<o.hit, 0 - CategoryCount(rows, o.category)>>])

ExploreCandidates(rows, rest) ==
    SortedReverse(rest, [o \in Range(rows) |-> <<0 - CategoryCount(rows, o.category), o.hit>>])

\* The explore names without the refill of an empty lane.
ExploreNamesOnly(explore, rest, b) == explore

ExploreNamesOrFallback(explore, rest, b) ==
    IF explore = <<>> THEN Take(rest, Max(1, b.explore.operators)) ELSE explore

OperatorsByLane(rows, ranked, rest, b) ==
    [exploit |-> Tagged(Take(ranked, b.exploit.operators), "exploit", OperatorFields),
     explore |-> Tagged(ExploreNamesOrFallback(
                            Take(ExploreCandidates(rows, rest), b.explore.operators), rest, b),
                        "explore", OperatorFields)]

OperatorsRanked(rows, ranked, b) ==
    OperatorsByLane(rows, ranked,
        SelectSeq(ranked, LAMBDA o : o \notin Range(Take(ranked, b.exploit.operators))), b)

SelectOperatorsByLane(c, b) ==
    OperatorsRanked(ByName(c.operators), RankedOperators(ByName(c.operators)), b)

\* RetrievalPackBuilder.build (token estimate, visual graph and timing left out)
LaneSelection(fields, operators) ==
    [field_ids |-> Column(fields, "id"), operator_names |-> Column(operators, "name")]

\* A guard that does not block the full metadata.
UnblockedContextGuard(b) ==
    [full_metadata_blocked |-> FALSE,
     max_items |-> [datasets |-> b.exploit.datasets + b.explore.datasets,
                    fields |-> b.exploit.fields + b.explore.fields,
                    operators |-> b.exploit.operators + b.explore.operators]]

RetrievalContextGuard(b) ==
    [full_metadata_blocked |-> TRUE,
     max_items |-> [datasets |-> b.exploit.datasets + b.explore.datasets,
                    fields |-> b.exploit.fields + b.explore.fields,
                    operators |-> b.exploit.operators + b.explore.operators]]

CandidateCounts(subcategories, datasets, fields, operators) ==
    [subcategories |-> Len(subcategories), datasets |-> Len(datasets),
     fields |-> Len(fields), operators |-> Len(operators)]

RetrievalPack(b, subcategories, datasets, fields, operators, lanes) ==
    [built |-> TRUE,
     selected_subcategories |-> subcategories,
     candidate_datasets |-> datasets,
     candidate_fields |-> fields,
     candidate_operators |-> operators,
     lanes |-> lanes,
     budget_policy |-> [exploit |-> b.exploit, explore |-> b.explore],
     context_guard |-> RetrievalContextGuard(b),
     telemetry |-> CandidateCounts(subcategories, datasets, fields, operators)]

BuildFromLanes(b, subcats, datasets_by_lane, fields_by_lane, operators_by_lane) ==
    RetrievalPack(b,
        MergeUnique(subcats.exploit, subcats.explore),
        MergeUniqueModels(datasets_by_lane.exploit, datasets_by_lane.explore, "id"),
        MergeUniqueModels(fields_by_lane.exploit, fields_by_lane.explore, "id"),
        MergeUniqueModels(operators_by_lane.exploit, operators_by_lane.explore, "name"),
        [exploit |-> LaneSelection(fields_by_lane.exploit, operators_by_lane.exploit),
         explore |-> LaneSelection(fields_by_lane.explore, operators_by_lane.explore)])

BuildFromDatasets(c, b, subcats, datasets_by_lane) ==
    BuildFromLanes(b, subcats, datasets_by_lane,
                   SelectFieldsByLane(c, b, datasets_by_lane), SelectOperatorsByLane(c, b))

BuildFromSubcategories(c, b, subcats) ==
    BuildFromDatasets(c, b, subcats, SelectDatasetsByLane(c, b, subcats))

Build(c, b) == BuildFromSubcategories(c, b, SelectSubcategories(RankSubcategories(c), b))

\* ======================================================================
\* Budget shrink steps (generation/budget.py)
\* ======================================================================

\* Retention factors and lane ratios are percentages.
Floor(current_total, factor) == (current_total * factor) \div 100

\* round() of Python: halves go to the even neighbour.
RoundOf(quotient, twice_rest) ==
    IF twice_rest > 100 \/ (twice_rest = 100 /\ quotient % 2 = 1) THEN quotient + 1 ELSE quotient

Round(total, ratio) == RoundOf((total * ratio) \div 100, 2 * ((total * ratio) % 100))

\* A floor of two elements instead of one.
AtFloorOfTwo(count) == count <= 2

AtFloor(count) == count <= 1

ForcedBelow(target, current_total, min_total) ==
    IF target >= current_total THEN Max(min_total, current_total - 1) ELSE target

TargetTotal(current_total, factor, min_total) ==
    IF current_total <= min_total THEN current_total
    ELSE ForcedBelow(Max(min_total, Floor(current_total, factor)), current_total, min_total)

\* _allocate_lane_counts, for counts that are never negative
FillExplore(target_total, exploit_target, explore_target, explore_available) ==
    <<exploit_target,
      Min(explore_available, target_total - exploit_target)>>

FillExploit(target_total, exploit_target, explore_target, exploit_available, explore_available) ==
    IF exploit_target + explore_target >= target_total
    THEN <<exploit_target, explore_target>>
    ELSE IF exploit_available >= target_total - explore_target
    THEN <<target_total - explore_target, explore_target>>
    ELSE FillExplore(target_total, exploit_available, explore_target, explore_available)

AtLeastOneExploit(target_total, exploit_target, explore_target, exploit_available, explore_available) ==
    IF exploit_available > 0 /\ exploit_target <= 0
    THEN FillExploit(target_total, 1, Max(0, target_total - 1),
                     exploit_available, explore_available)
    ELSE FillExploit(target_total, exploit_target, explore_target,
                     exploit_available, explore_available)

ExploitAfterExplore(target_total, explore_target, exploit_available, explore_available) ==
    AtLeastOneExploit(target_total,
                      Min(exploit_available, Max(0, target_total - explore_target)),
                      explore_target, exploit_available, explore_available)

ExploreFloor(explore_target, target_total, explore_available, min_explore) ==
    IF explore_available > 0 /\ min_explore > 0
    THEN Max(explore_target, Min(min_explore, target_total))
    ELSE explore_target

AllocateLaneCounts(target_total, exploit_available, explore_available, explore_ratio, min_explore) ==
    IF target_total <= 0 THEN <<0, 0>>
    ELSE IF exploit_available + explore_available <= target_total
    THEN <<exploit_available, explore_available>>
    ELSE ExploitAfterExplore(target_total,
             Min(Min(ExploreFloor(Round(target_total, explore_ratio), target_total,
                                  explore_available, min_explore),
                     explore_available),
                 target_total),
             exploit_available, explore_available)

\* The loop of _trim_field_candidates / _trim_operator_candidates over the
\* rows in their original order.
RECURSIVE KeepInOrder(_, _, _, _, _, _)
KeptSoFar(rows, keep_exploit, keep_explore, out, target_total, field) ==
    IF Len(out) >= target_total THEN out
    ELSE KeepInOrder(rows, keep_exploit, keep_explore, out, target_total, field)

KeepInOrder(rows, keep_exploit, keep_explore, out, target_total, field) ==
    IF rows = <<>> THEN out
    ELSE IF Head(rows).lane = "exploit" /\ Head(rows)[field] \in keep_exploit
    THEN KeptSoFar(Tail(rows), keep_exploit \ {Head(rows)[field]}, keep_explore,
                   Append(out, Head(rows)), target_total, field)
    ELSE IF Head(rows).lane = "explore" /\ Head(rows)[field] \in keep_explore
    THEN KeptSoFar(Tail(rows), keep_exploit, keep_explore \ {Head(rows)[field]},
                   Append(out, Head(rows)), target_total, field)
    ELSE KeptSoFar(Tail(rows), keep_exploit, keep_explore, out, target_total, field)

TrimToTargets(rows, exploit, explore, targets, target_total, field) ==
    KeepInOrder(rows, Range(Column(Take(exploit, targets[1]), field)),
                Range(Column(Take(explore, targets[2]), field)), <<>>, target_total, field)

\* The trim that hands every survivor to the exploit lane.
TrimCandidatesRetagged(rows, exploit, explore, target_total, lb, field) ==
    Tagged(TrimToTargets(rows, exploit, explore,
               AllocateLaneCounts(target_total, Len(exploit), Len(explore), lb.explore_ratio,
                                  Min(lb.min_explore_candidates_per_batch, target_total)),
               target_total, field),
           "exploit", DOMAIN rows[1] \ {"lane"})

TrimCandidates(rows, exploit, explore, target_total, lb, field) ==
    TrimToTargets(rows, exploit, explore,
        AllocateLaneCounts(target_total, Len(exploit), Len(explore), lb.explore_ratio,
                           Min(lb.min_explore_candidates_per_batch, target_total)),
        target_total, field)

TrimFieldCandidates(rows, target_total, lb) ==
    IF target_total >= Len(rows) THEN rows
    ELSE TrimCandidates(rows, InLane(rows, "exploit"), InLane(rows, "explore"),
                        target_total, lb, "id")

TrimOperatorCandidates(rows, target_total, lb) ==
    IF target_total >= Len(rows) THEN rows
    ELSE TrimCandidates(rows, InLane(rows, "exploit"), InLane(rows, "explore"),
                        target_total, lb, "name")

ShrinkFields(p, factor, lb) ==
    IF AtFloor(Len(p.candidate_fields)) THEN p
    ELSE [p EXCEPT !.candidate_fields =
             TrimFieldCandidates(@, TargetTotal(Len(@), factor, 1), lb)]

ShrinkOperators(p, factor, lb) ==
    IF AtFloor(Len(p.candidate_operators)) THEN p
    ELSE [p EXCEPT !.candidate_operators =
             TrimOperatorCandidates(@, TargetTotal(Len(@), factor, 1), lb)]

\* _shrink_subcategories
RECURSIVE TopUp(_, _, _)
TopUp(keep, selected, target_total) ==
    IF selected = <<>> THEN keep
    ELSE IF Head(selected) \in Range(keep) THEN TopUp(keep, Tail(selected), target_total)
    ELSE IF Len(keep) + 1 >= target_total THEN Append(keep, Head(selected))
    ELSE TopUp(Append(keep, Head(selected)), Tail(selected), target_total)

KeepSubcategories(keep, selected, target_total) ==
    IF Len(keep) < target_total THEN TopUp(keep, selected, target_total) ELSE keep

FieldsOfDatasets(fields, keep_dataset_ids) ==
    IF keep_dataset_ids # {} THEN SelectSeq(fields, LAMBDA f : f.dataset_id \in keep_dataset_ids)
    ELSE fields

KeepDatasets(p, selected, datasets) ==
    [p EXCEPT !.selected_subcategories = selected,
              !.candidate_datasets = datasets,
              !.candidate_fields = FieldsOfDatasets(@, Range(Column(datasets, "id")))]

KeepOnly(p, keep_set) ==
    KeepDatasets(p, SelectSeq(p.selected_subcategories, LAMBDA x : x \in keep_set),
                 SelectSeq(p.candidate_datasets, LAMBDA d : d.subcategory_id \in keep_set))

ShrinkToTargets(p, exploit_subcats, explore_subcats, targets, target_total) ==
    KeepOnly(p, Range(KeepSubcategories(
                          Take(exploit_subcats, targets[1]) \o Take(explore_subcats, targets[2]),
                          p.selected_subcategories, target_total)))

ShrinkSubcategoriesTo(p, exploit_subcats, explore_subcats, target_total, lb) ==
    ShrinkToTargets(p, exploit_subcats, explore_subcats,
        AllocateLaneCounts(target_total, Len(exploit_subcats), Len(explore_subcats),
                           lb.explore_ratio,
                           IF lb.min_explore_candidates_per_batch > 0 THEN 1 ELSE 0),
        target_total)

ShrinkSubcategories(p, factor, lb) ==
    IF AtFloor(Len(p.selected_subcategories)) THEN p
    ELSE ShrinkSubcategoriesTo(p,
             OrderedUnique(Column(InLane(p.candidate_datasets, "exploit"), "subcategory_id")),
             OrderedUnique(Column(InLane(p.candidate_datasets, "explore"), "subcategory_id")),
             TargetTotal(Len(p.selected_subcategories), factor, 1), lb)

Phases == <<"fields", "operators", "subcategories">>

ShrinkPack(p, phase, factor, lb) ==
    IF phase = "fields" THEN ShrinkFields(p, factor, lb)
    ELSE IF phase = "operators" THEN ShrinkOperators(p, factor, lb)
    ELSE IF phase = "subcategories" THEN ShrinkSubcategories(p, factor, lb)
    ELSE p

\* _sync_pack_contracts (token estimate and the copy of the token ceilings left out)
PreferredThenExtras(preferred, dataset_subcats) ==
    preferred \o SelectSeq(dataset_subcats, LAMBDA x : x \notin Range(preferred))

SyncedSubcategories(selected, dataset_subcats) ==
    IF dataset_subcats = <<>> THEN selected
    ELSE PreferredThenExtras(SelectSeq(selected, LAMBDA x : x \in Range(dataset_subcats)),
                             dataset_subcats)

Updated(max_items, counts) ==
    [k \in DOMAIN max_items \cup DOMAIN counts |->
        IF k \in DOMAIN counts THEN counts[k] ELSE max_items[k]]

SyncWith(p, selected, counts) ==
    [p EXCEPT !.selected_subcategories = selected,
              !.lanes = [lane \in {"exploit", "explore"} |->
                            LaneSelection(InLane(p.candidate_fields, lane),
                                          InLane(p.candidate_operators, lane))],
              !.telemetry = counts,
              !.context_guard.max_items = Updated(@, counts)]

SyncSelected(p, selected) ==
    SyncWith(p, selected, CandidateCounts(selected, p.candidate_datasets,
                                          p.candidate_fields, p.candidate_operators))

SyncPackContracts(p) ==
    SyncSelected(p, SyncedSubcategories(p.selected_subcategories,
                        OrderedUnique(Column(p.candidate_datasets, "subcategory_id"))))

PackSignature(p) ==
    <<Column(p.candidate_fields, "id"), Column(p.candidate_operators, "name"),
      p.selected_subcategories>>

\* _explore_floor_targets / _explore_floor_preserved
ExploreFloorTargets(p, lb) ==
    IF Max(0, lb.min_explore_candidates_per_batch) <= 0 THEN <<0, 0>>
    ELSE <<Min(Max(0, lb.min_explore_candidates_per_batch),
               Len(InLane(p.candidate_fields, "explore"))),
           Min(Max(0, lb.min_explore_candidates_per_batch),
               Len(InLane(p.candidate_operators, "explore")))>>

ExploreFloorPreserved(p, targets) ==
    /\ Len(InLane(p.candidate_fields, "explore")) >= Max(0, targets[1])
    /\ Len(InLane(p.candidate_operators, "explore")) >= Max(0, targets[2])

\* prompt_builder(idea, working_pack, knowledge_bundle): the prompt is known by
\* the pack it was built from and by its rough token estimate.
PromptOf(p, prompt_tokens) == [built_from |-> p, tokens |-> prompt_tokens]

\* The flags with the day total left out.
ExceededFlagsWithoutDay(prompt_tokens, completion_budget, lb, usage, explore_floor) ==
    [request_prompt |-> prompt_tokens > lb.max_prompt_tokens,
     request_completion |-> completion_budget > lb.max_completion_tokens,
     batch_total |-> usage.total_run_tokens + prompt_tokens + completion_budget
                        > lb.max_tokens_per_batch,
     day_total |-> FALSE,
     explore_floor |-> ~explore_floor]

\* _evaluate_budget (lane ratio, KPIs and cost estimate left out)
ExceededFlags(prompt_tokens, completion_budget, lb, usage, explore_floor) ==
    [request_prompt |-> prompt_tokens > lb.max_prompt_tokens,
     request_completion |-> completion_budget > lb.max_completion_tokens,
     batch_total |-> usage.total_run_tokens + prompt_tokens + completion_budget
                        > lb.max_tokens_per_batch,
     day_total |-> usage.total_day_tokens + prompt_tokens + completion_budget
                        > lb.max_tokens_per_day,
     explore_floor |-> ~explore_floor]

AnyExceeded(exceeded) == \E k \in DOMAIN exceeded : exceeded[k]

BudgetEvaluation(prompt_tokens, completion_budget, p, usage, fallback_count, explore_floor, exceeded) ==
    [passed |-> ~AnyExceeded(exceeded),
     prompt_tokens_rough |-> prompt_tokens,
     completion_tokens_budget |-> completion_budget,
     projected_batch_tokens |-> usage.total_run_tokens + prompt_tokens + completion_budget,
     projected_day_tokens |-> usage.total_day_tokens + prompt_tokens + completion_budget,
     selected_topk |-> CandidateCounts(p.selected_subcategories, p.candidate_datasets,
                                       p.candidate_fields, p.candidate_operators),
     explore_floor_preserved |-> explore_floor,
     exceeded |-> exceeded,
     fallback_count |-> fallback_count]

EvaluateWith(prompt_tokens, completion_budget, p, lb, usage, fallback_count, explore_floor) ==
    BudgetEvaluation(prompt_tokens, completion_budget, p, usage, fallback_count, explore_floor,
        ExceededFlags(prompt_tokens, completion_budget, lb, usage, explore_floor))

EvaluateBudget(prompt, p, lb, usage, max_output_tokens, fallback_count, explore_floor_targets) ==
    EvaluateWith(prompt.tokens, Max(1, Min(max_output_tokens, lb.max_completion_tokens)),
                 p, lb, usage, fallback_count, ExploreFloorPreserved(p, explore_floor_targets))

\* _scaled_count / _lane_budget_from_payload / _expand_retrieval_pack
TopkExpandFactor == 150

ScaledFrom(base, scaled) == IF scaled <= base THEN base + 1 ELSE scaled

ScaledCount(value, factor) ==
    ScaledFrom(Max(1, value), Round(Max(1, value), Max(100, factor)))

LaneBudgetFromPayload(row, factor) ==
    [subcategories |-> ScaledCount(row.subcategories, factor),
     datasets |-> ScaledCount(row.datasets, factor),
     fields |-> ScaledCount(row.fields, factor),
     operators |-> ScaledCount(row.operators, factor)]

ExpandedBudget(p) ==
    [exploit |-> LaneBudgetFromPayload(p.budget_policy.exploit, TopkExpandFactor),
     explore |-> LaneBudgetFromPayload(p.budget_policy.explore, TopkExpandFactor)]

\* ---- bounds of the pack inputs ----
MaxLaneBudget == 2
MaxExpansions == 1

Dataset(id, subcategory_id, score, fieldCount, valueScore) ==
    [id |-> id, subcategory_id |-> subcategory_id, score |-> score,
     fieldCount |-> fieldCount, valueScore |-> valueScore]

DataField(id, dataset_id, score, type_priority, alphaCount) ==
    [id |-> id, dataset_id |-> dataset_id, score |-> score,
     type_priority |-> type_priority, alphaCount |-> alphaCount]

Operator(name, hit, category) == [name |-> name, hit |-> hit, category |-> category]

\* A catalog of three subcategories and one whose single dataset leaves the
\* explore lane to its fallbacks.
Catalogs ==
    { [subcategory_score |-> [x \in {"s1", "s2", "s3"} |->
                                 IF x = "s1" THEN 3 ELSE IF x = "s2" THEN 2 ELSE 1],
       datasets |-> << Dataset("d1", "s1", 5, 3, 2), Dataset("d2", "s1", 4, 2, 1),
                       Dataset("d3", "s2", 3, 2, 3), Dataset("d4", "s3", 1, 1, 1) >>,
       fields |-> << DataField("f1", "d1", 9, 3, 5), DataField("f2", "d1", 7, 3, 1),
                     DataField("f3", "d2", 6, 2, 4), DataField("f4", "d3", 5, 3, 2),
                     DataField("f5", "d3", 5, 1, 3), DataField("f6", "d4", 2, 3, 0) >>,
       operators |-> << Operator("rank", 9, "cross"), Operator("ts_mean", 7, "time"),
                        Operator("ts_delta", 7, "time"), Operator("zscore", 3, "cross"),
                        Operator("group_rank", 1, "group") >> ],
      [subcategory_score |-> [x \in {"s1"} |-> 1],
       datasets |-> << Dataset("d1", "s1", 2, 2, 1) >>,
       fields |-> << DataField("f1", "d1", 4, 3, 2), DataField("f2", "d1", 3, 3, 1) >>,
       operators |-> << Operator("rank", 5, "cross"), Operator("ts_mean", 2, "time") >> ] }

\* Exploit lanes are given at least one item of each kind; explore lanes may
\* be configured with none.
ExploitBudgets ==
    [subcategories : 1..2, datasets : 1..2,
     fields : 1..MaxLaneBudget, operators : 1..MaxLaneBudget]

ExploreBudgets ==
    [subcategories : {1}, datasets : 0..1,
     fields : 0..MaxLaneBudget, operators : 0..MaxLaneBudget]

RetrievalBudgets == [exploit : ExploitBudgets, explore : ExploreBudgets]

LLMBudgets ==
    [min_explore_candidates_per_batch : {0, 1}, explore_ratio : {30, 50},
     fallback_topk_steps : {<<85, 40>>},
     max_prompt_tokens : {2}, max_completion_tokens : {1},
     max_tokens_per_batch : {4}, max_tokens_per_day : {4}]

\* Token usage of the run and the day before the call, the requested output
\* tokens, and the rough token estimates of the prompts the prompt builder
\* returns.
Usages == {[total_run_tokens |-> 1, total_day_tokens |-> 0]}

OutputTokens == [max_output_tokens |-> 1]

PromptTokens == {2, 3}

InitPack ==
    /\ IdleLoop
    /\ IdleGate
    /\ IdleBus
    /\ IdleCopy
    /\ IdleRuns
    /\ IdleEstimate
    /\ IdleDay
    /\ catalog \in Catalogs
    /\ rbudget \in RetrievalBudgets
    /\ lbudget \in LLMBudgets
    /\ pack = NoPack
    /\ last_step = [kind |-> "none", phase |-> 0, factor |-> 0, allowed |-> FALSE,
                    signature_before |-> <<>>]
    /\ pack_expansions = 0
    /\ enforcement = NoEnforcement
    /\ alpha_maker = NoPolicy

\* build_retrieval_pack
PackBuild ==
    /\ last_step.kind = "none"
    /\ pack' = Build(catalog, rbudget)
    /\ last_step' = [last_step EXCEPT !.kind = "built"]
    /\ UNCHANGED <<catalog, rbudget, lbudget, pack_expansions, enforcement, alpha_maker>>

\* The locals of enforce_alpha_prompt_budget after its first evaluation.
\* evaluated lists the verdicts of the evaluations made so far and iterations
\* the phase, factor and pack signatures of the loop iterations run so far.
StartedWith(usage, prompt, evaluation, explore_floor_targets) ==
    [started |-> TRUE, usage |-> usage, explore_floor_targets |-> explore_floor_targets,
     prompt |-> prompt, evaluation |-> evaluation,
     fallback_count |-> 0, fallback_steps |-> <<>>,
     evaluated |-> <<evaluation.passed>>, iterations |-> <<>>]

StartedOn(p, lb, usage, prompt, explore_floor_targets) ==
    StartedWith(usage, prompt,
        EvaluateBudget(prompt, p, lb, usage, OutputTokens.max_output_tokens, 0,
                       explore_floor_targets),
        explore_floor_targets)

Started(p, lb, usage, prompt_tokens, explore_floor_targets) ==
    StartedOn(p, lb, usage, PromptOf(p, prompt_tokens), explore_floor_targets)

\* A loop that never skips a step.
SignatureAlwaysChanged(signature_before, signature_after) == TRUE

\* signature_after == signature_before makes the loop skip the step.
SignatureChanged(signature_before, signature_after) == signature_after # signature_before

FallbackStep(phase, factor, evaluation, fallback_count) ==
    [phase |-> Phases[phase], factor |-> factor,
     prompt_tokens |-> evaluation.prompt_tokens_rough,
     completion_tokens |-> evaluation.completion_tokens_budget,
     selected_topk |-> evaluation.selected_topk,
     budget_exceeded |-> evaluation.exceeded,
     fallback_count |-> fallback_count]

Iteration(phase, factor, signature_before, signature_after) ==
    [phase |-> phase, factor |-> factor,
     signature_before |-> signature_before, signature_after |-> signature_after]

Applied(e, phase, factor, prompt, evaluation) ==
    [e EXCEPT !.fallback_count = @ + 1,
              !.prompt = prompt,
              !.evaluation = evaluation,
              !.fallback_steps = Append(@, FallbackStep(phase, factor, evaluation,
                                                        e.fallback_count + 1)),
              !.evaluated = Append(@, evaluation.passed)]

AppliedOn(e, p, lb, phase, factor, prompt) ==
    Applied(e, phase, factor, prompt,
        EvaluateBudget(prompt, p, lb, e.usage, OutputTokens.max_output_tokens,
                       e.fallback_count + 1, e.explore_floor_targets))

Iterated(e, phase, factor, signature_before, signature_after) ==
    [e EXCEPT !.iterations = Append(@, Iteration(phase, factor, signature_before,
                                                 signature_after))]

Stepped(e, p, lb, phase, factor, prompt_tokens, signature_before, signature_after) ==
    IF SignatureChanged(signature_before, signature_after)
    THEN AppliedOn(Iterated(e, phase, factor, signature_before, signature_after),
                   p, lb, phase, factor, PromptOf(p, prompt_tokens))
    ELSE Iterated(e, phase, factor, signature_before, signature_after)

\* The loop condition that lets the iterations go on after a passing evaluation.
EnforcingAfterPass == last_step.kind \in {"checked", "shrink"}

\* enforce_alpha_prompt_budget up to its first evaluation; prompt_tokens is
\* the rough token estimate of the prompt the prompt builder returns.
EnforceStart(usage, prompt_tokens) ==
    /\ last_step.kind \in {"built", "expanded"}
    /\ pack' = SyncPackContracts(pack)
    /\ enforcement' = Started(pack', lbudget, usage, prompt_tokens,
                          ExploreFloorTargets(pack, lbudget))
    /\ last_step' = [kind |-> "checked", phase |-> 0, factor |-> 0,
                     allowed |-> enforcement'.evaluation.passed, signature_before |-> <<>>]
    /\ UNCHANGED <<catalog, rbudget, lbudget, pack_expansions, alpha_maker>>

Enforcing == last_step.kind \in {"checked", "shrink"} /\ ~last_step.allowed

NextPhase ==
    IF last_step.kind = "checked" THEN 1
    ELSE IF last_step.factor < Len(lbudget.fallback_topk_steps) THEN last_step.phase
    ELSE last_step.phase + 1

NextFactor ==
    IF last_step.kind = "checked" THEN 1
    ELSE IF last_step.factor < Len(lbudget.fallback_topk_steps) THEN last_step.factor + 1
    ELSE 1

\* One iteration of the phase / factor loop of enforce_alpha_prompt_budget.
ShrinkStep(prompt_tokens) ==
    /\ Enforcing
    /\ NextPhase <= Len(Phases)
    /\ pack' = SyncPackContracts(ShrinkPack(pack, Phases[NextPhase],
                                            lbudget.fallback_topk_steps[NextFactor], lbudget))
    /\ enforcement' = Stepped(enforcement, pack', lbudget, NextPhase, NextFactor, prompt_tokens,
                              PackSignature(pack), PackSignature(pack'))
    /\ last_step' = [kind |-> "shrink", phase |-> NextPhase, factor |-> NextFactor,
                     allowed |-> /\ SignatureChanged(PackSignature(pack), PackSignature(pack'))
                                 /\ enforcement'.evaluation.passed,
                     signature_before |-> PackSignature(pack)]
    /\ UNCHANGED <<catalog, rbudget, lbudget, pack_expansions, alpha_maker>>

\* The BudgetEnforcementResult of a call that has returned.
Returned == last_step.allowed \/ last_step.kind = "exhausted"

BudgetEnforcementResult ==
    [allowed |-> last_step.allowed, pack |-> pack, prompt |-> enforcement.prompt,
     evaluation |-> enforcement.evaluation, fallback_steps |-> enforcement.fallback_steps]

\* The loop ran out of phases and factors: allowed=False.
EnforceExhausted ==
    /\ Enforcing
    /\ NextPhase > Len(Phases)
    /\ last_step' = [last_step EXCEPT !.kind = "exhausted"]
    /\ UNCHANGED <<catalog, rbudget, pack, lbudget, pack_expansions, enforcement,
                   alpha_maker>>

\* ValidationLoopOrchestrator._expand_retrieval_pack
PackExpand ==
    /\ pack # NoPack
    /\ last_step.kind \in {"built", "exhausted"} \/ last_step.allowed
    /\ pack_expansions < MaxExpansions
    /\ rbudget' = ExpandedBudget(pack)
    /\ pack' = Build(catalog, rbudget')
    /\ last_step' = [kind |-> "expanded", phase |-> 0, factor |-> 0, allowed |-> FALSE,
                     signature_before |-> <<>>]
    /\ pack_expansions' = pack_expansions + 1
    /\ enforcement' = NoEnforcement
    /\ alpha_maker' = NoPolicy
    /\ UNCHANGED <<catalog, lbudget>>

\* _apply_alpha_budget_policy: one budget.fallback_applied event per fallback step
FallbackEvents(fallback_steps) ==
    [k \in 1..Len(fallback_steps) |-> "budget.fallback_applied"]

\* _apply_alpha_budget_policy: the events of an allowed result
PassedEvents(evaluation) ==
    <<"budget.check_passed">>
    \o (IF evaluation.explore_floor_preserved THEN <<"budget.explore_floor_preserved">>
        ELSE <<>>)

\* _apply_alpha_budget_policy: "reasons = [key for key, value in exceeded.items() if value]"
BlockedReasons(exceeded) == {k \in DOMAIN exceeded : exceeded[k]}

\* The blocked result that is returned like an allowed one.
PolicyNeverRaises(result) == FALSE

\* _apply_alpha_budget_policy: "if result.allowed: ... return result", else
\* "raise BudgetBlockedError"
PolicyRaises(result) == ~result.allowed

\* LLMOrchestrator._apply_alpha_budget_policy on the result of
\* enforce_alpha_prompt_budget, called by run_alpha_maker without a handler:
\* an allowed result is returned and the prompt goes to generation, a blocked
\* one is raised as BudgetBlockedError out of run_alpha_maker.
ApplyAlphaBudgetPolicy ==
    /\ Returned
    /\ alpha_maker.pc = "idle"
    /\ alpha_maker' =
          IF PolicyRaises(BudgetEnforcementResult)
          THEN [pc |-> "raised",
                events |-> FallbackEvents(BudgetEnforcementResult.fallback_steps)
                           \o <<"budget.check_failed", "budget.blocked">>,
                reasons |-> BlockedReasons(BudgetEnforcementResult.evaluation.exceeded)]
          ELSE [pc |-> "generating",
                events |-> FallbackEvents(BudgetEnforcementResult.fallback_steps)
                           \o PassedEvents(BudgetEnforcementResult.evaluation),
                reasons |-> {}]
    /\ UNCHANGED <<catalog, rbudget, pack, lbudget, last_step, pack_expansions, enforcement>>

NextPack ==
    \/ PackBuild /\ UNCHANGED <<loopVars, gateVars, busVars, copyVars, runsVars, estimateVars, dayVars>>
    \/ (\E usage \in Usages : \E prompt_tokens \in PromptTokens :
            EnforceStart(usage, prompt_tokens)) /\ UNCHANGED <<loopVars, gateVars, busVars, copyVars, runsVars, estimateVars, dayVars>>
    \/ (\E prompt_tokens \in PromptTokens : ShrinkStep(prompt_tokens))
            /\ UNCHANGED <<loopVars, gateVars, busVars, copyVars, runsVars, estimateVars, dayVars>>
    \/ EnforceExhausted /\ UNCHANGED <<loopVars, gateVars, busVars, copyVars, runsVars, estimateVars, dayVars>>
    \/ PackExpand /\ UNCHANGED <<loopVars, gateVars, busVars, copyVars, runsVars, estimateVars, dayVars>>
    \/ ApplyAlphaBudgetPolicy /\ UNCHANGED <<loopVars, gateVars, busVars, copyVars, runsVars, estimateVars, dayVars>>

SpecPack == InitPack /\ [][NextPack]_vars

\* ---- properties of the retrieval pack ----
LaneCounts(p, lane) ==
    [datasets |-> Len(InLane(p.candidate_datasets, lane)),
     fields |-> Len(p.lanes[lane].field_ids),
     operators |-> Len(p.lanes[lane].operator_names)]

WithinBudget(p) ==
    /\ Len(p.candidate_datasets) <= p.budget_policy.exploit.datasets + p.budget_policy.explore.datasets
    /\ Len(p.candidate_fields) <= p.budget_policy.exploit.fields + p.budget_policy.explore.fields
    /\ Len(p.candidate_operators)
          <= p.budget_policy.exploit.operators + p.budget_policy.explore.operators
    /\ \A lane \in {"exploit", "explore"} : \A kind \in {"datasets", "fields", "operators"} :
          LaneCounts(p, lane)[kind] <= p.budget_policy[lane][kind]

PositiveBudgets(p) ==
    \A lane \in {"exploit", "explore"} : \A kind \in {"datasets", "fields", "operators"} :
        p.budget_policy[lane][kind] >= 1

\* C4: every pack returned by build_retrieval_pack, and every pack after any
\* sequence of budget shrink steps, holds at most exploit + explore budget
\* many datasets, fields and operators, and each lane holds at most its own
\* configured budget of each.
C4_WithinLaneBudgets == pack # NoPack => WithinBudget(pack)

\* The bound of C4 for packs built from budgets of at least one item per lane
\* and kind.
WithinPositiveLaneBudgets == (pack # NoPack /\ PositiveBudgets(pack)) => WithinBudget(pack)

\* A pack built with an explore budget of no fields that has been shrunk and
\* still holds an explore field.
ZeroBudgetLaneFilled ==
    /\ pack # NoPack
    /\ last_step.kind = "shrink"
    /\ pack.budget_policy.explore.fields = 0
    /\ Len(pack.lanes.explore.field_ids) = 1

\* C5: a shrink step on a list (fields, operators, subcategories) of more
\* than one element leaves strictly fewer elements in that list; on a list at
\* or below the floor of one element the step changes nothing, so the pack's
\* (field ids, operator names, subcategories) signature is unchanged.
C5_ShrinkStrictOrNoOp ==
    last_step.kind = "shrink" =>
        IF Len(last_step.signature_before[last_step.phase]) > 1
        THEN Len(PackSignature(pack)[last_step.phase])
                < Len(last_step.signature_before[last_step.phase])
        ELSE PackSignature(pack) = last_step.signature_before

\* The subcategory phase has taken three subcategories down to two, and the
\* next step takes the two down to one.
C5_Witness ==
    /\ last_step.kind = "shrink"
    /\ Phases[last_step.phase] = "subcategories"
    /\ Len(last_step.signature_before[3]) = 2
    /\ Len(pack.selected_subcategories) = 1
    /\ Len(pack.candidate_fields) = 1

\* A step at the floor: the fields list held one element and the step left
\* the signature as it was.
ShrinkAtFloor ==
    /\ last_step.kind = "shrink"
    /\ Phases[last_step.phase] = "fields"
    /\ Len(last_step.signature_before[1]) = 1
    /\ PackSignature(pack) = last_step.signature_before

\* C6: context_guard.full_metadata_blocked is true in every pack returned by
\* build_retrieval_pack, after every budget shrink step and after the
\* expansion rebuild.
C6_FullMetadataBlocked == pack # NoPack => pack.context_guard.full_metadata_blocked = TRUE

\* A pack rebuilt by the expansion and then shrunk by a budget step.
C6_Witness ==
    /\ pack_expansions = 1
    /\ last_step.kind = "shrink"
    /\ PackSignature(pack) # last_step.signature_before
    /\ pack.context_guard.full_metadata_blocked = TRUE

\* ---- properties of the budget enforcement ----
InEnforcement == enforcement # NoEnforcement

\* C11: the call returns allowed=true exactly when some evaluation of its
\* sequence passed; no evaluation before the last one passed, so it returns
\* at the first passing evaluation and shrinks no further; the returned
\* evaluation has no exceeded flag and is the evaluation of the returned
\* prompt, which was built from the returned pack.
C11_AllowedAtFirstPass ==
    InEnforcement =>
        /\ \A i \in 1..(Len(enforcement.evaluated) - 1) : ~enforcement.evaluated[i]
        /\ Len(enforcement.evaluated) = 1 + Len(enforcement.fallback_steps)
        /\ Returned =>
              (BudgetEnforcementResult.allowed
                  <=> \E i \in 1..Len(enforcement.evaluated) : enforcement.evaluated[i])
        /\ (Returned /\ BudgetEnforcementResult.allowed) =>
              /\ ~AnyExceeded(BudgetEnforcementResult.evaluation.exceeded)
              /\ BudgetEnforcementResult.prompt.built_from = BudgetEnforcementResult.pack
              /\ BudgetEnforcementResult.evaluation
                    = EvaluateBudget(BudgetEnforcementResult.prompt,
                                     BudgetEnforcementResult.pack, lbudget,
                                     enforcement.usage, OutputTokens.max_output_tokens,
                                     enforcement.fallback_count,
                                     enforcement.explore_floor_targets)

\* The call returned allowed=true after two applied shrink steps.
C11_Witness ==
    /\ InEnforcement
    /\ last_step.kind = "shrink"
    /\ last_step.allowed
    /\ Len(enforcement.fallback_steps) = 2
    /\ enforcement.evaluated = <<FALSE, FALSE, TRUE>>

NumberOfFactors == Len(lbudget.fallback_topk_steps)

ChangedIterations ==
    SelectSeq(enforcement.iterations, LAMBDA it : it.signature_after # it.signature_before)

\* C12: when no evaluation passes the call has run every phase x factor
\* iteration in order and returns allowed=false; fallback_steps lists exactly
\* the iterations that changed the pack signature, at most 3 times the number
\* of factors, fallback_count is their number, and the final evaluation has
\* at least one exceeded flag.
C12_BlockedWhenExhausted ==
    (InEnforcement /\ last_step.kind = "exhausted") =>
        /\ ~BudgetEnforcementResult.allowed
        /\ \A i \in 1..Len(enforcement.evaluated) : ~enforcement.evaluated[i]
        /\ Len(enforcement.iterations) = Len(Phases) * NumberOfFactors
        /\ \A k \in 1..Len(enforcement.iterations) :
              /\ enforcement.iterations[k].phase = ((k - 1) \div NumberOfFactors) + 1
              /\ enforcement.iterations[k].factor = ((k - 1) % NumberOfFactors) + 1
        /\ Len(BudgetEnforcementResult.fallback_steps) = Len(ChangedIterations)
        /\ \A k \in 1..Len(ChangedIterations) :
              /\ BudgetEnforcementResult.fallback_steps[k].phase
                    = Phases[ChangedIterations[k].phase]
              /\ BudgetEnforcementResult.fallback_steps[k].factor
                    = ChangedIterations[k].factor
              /\ BudgetEnforcementResult.fallback_steps[k].fallback_count = k
        /\ Len(BudgetEnforcementResult.fallback_steps) <= 3 * NumberOfFactors
        /\ enforcement.fallback_count = Len(BudgetEnforcementResult.fallback_steps)
        /\ BudgetEnforcementResult.evaluation.fallback_count = enforcement.fallback_count
        /\ AnyExceeded(BudgetEnforcementResult.evaluation.exceeded)

\* A blocked call in which some iterations changed the pack and others were
\* skipped.
C12_Witness ==
    /\ InEnforcement
    /\ last_step.kind = "exhausted"
    /\ Len(enforcement.fallback_steps) = 3
    /\ Len(enforcement.iterations) = 6
    /\ enforcement.evaluation.exceeded.request_prompt

Lanes == {"exploit", "explore"}

\* Every candidate field and operator carries one of the two lane tags.
LaneTagged(p) ==
    /\ \A i \in 1..Len(p.candidate_fields) : p.candidate_fields[i].lane \in Lanes
    /\ \A i \in 1..Len(p.candidate_operators) : p.candidate_operators[i].lane \in Lanes

\* The two lane selections share no field id and no operator name.
LanesDisjoint(p) ==
    /\ Range(p.lanes.exploit.field_ids) \cap Range(p.lanes.explore.field_ids) = {}
    /\ Range(p.lanes.exploit.operator_names) \cap Range(p.lanes.explore.operator_names) = {}

\* lanes[L] lists exactly the candidates tagged L.
LanesMatchTags(p) ==
    \A lane \in Lanes :
        /\ p.lanes[lane].field_ids = Column(InLane(p.candidate_fields, lane), "id")
        /\ p.lanes[lane].operator_names = Column(InLane(p.candidate_operators, lane), "name")

\* lanes[L] lists at least the candidates tagged L; an id selected by both
\* lanes is a candidate tagged exploit.
LanesCoverTags(p) ==
    /\ p.lanes.exploit.field_ids = Column(InLane(p.candidate_fields, "exploit"), "id")
    /\ p.lanes.exploit.operator_names
          = Column(InLane(p.candidate_operators, "exploit"), "name")
    /\ Range(Column(InLane(p.candidate_fields, "explore"), "id"))
          = Range(p.lanes.explore.field_ids) \ Range(p.lanes.exploit.field_ids)
    /\ Range(Column(InLane(p.candidate_operators, "explore"), "name"))
          = Range(p.lanes.explore.operator_names) \ Range(p.lanes.exploit.operator_names)

\* The pack is as build_retrieval_pack returned it (no enforcement call yet).
AsBuilt == pack # NoPack /\ last_step.kind \in {"built", "expanded"}

\* C18 as stated: in every built pack and after every shrink step the lane
\* tags are in {exploit, explore}, the lane selections are disjoint and
\* lanes[L] lists exactly the candidates tagged L.
C18_LanesPartitionAlways ==
    pack # NoPack => (LaneTagged(pack) /\ LanesDisjoint(pack) /\ LanesMatchTags(pack))

\* What does hold: every candidate of a built or shrunk pack carries one tag in
\* {exploit, explore}; after enforce_alpha_prompt_budget has synchronised the
\* pack, and after every shrink step, the lane selections are disjoint and
\* list exactly the candidates tagged with their lane; in a pack as built
\* lanes[exploit] lists exactly the exploit-tagged candidates while
\* lanes[explore] may repeat ids of lanes[exploit], whose candidates are
\* tagged exploit.
LanesPartitionOnceSynced ==
    pack # NoPack =>
        /\ LaneTagged(pack)
        /\ AsBuilt => LanesCoverTags(pack)
        /\ ~AsBuilt => (LanesDisjoint(pack) /\ LanesMatchTags(pack))

\* A built pack, every lane budget at least 1, whose lane selections overlap.
BuiltLanesOverlap ==
    /\ AsBuilt
    /\ PositiveBudgets(pack)
    /\ ~LanesDisjoint(pack)

\* s is t with some elements left out: same elements, same order.
RECURSIVE IsSubsequence(_, _)
IsSubsequence(s, t) ==
    IF s = <<>> THEN TRUE
    ELSE IF t = <<>> THEN FALSE
    ELSE IF Head(s) = Head(t) THEN IsSubsequence(Tail(s), Tail(t))
    ELSE IsSubsequence(s, Tail(t))

\* C19: a step of the budget enforcement (its first synchronisation, a shrink
\* step, its end) never adds a candidate, never reorders the survivors and
\* never changes a survivor: each candidate list after the step is a
\* subsequence of the list before it, lane tags included; so after any
\* sequence of shrink steps each list is a subsequence of the original one.
C19_ShrinkKeepsSurvivors ==
    [][(pack # NoPack /\ last_step'.kind \in {"checked", "shrink", "exhausted"}) =>
          /\ IsSubsequence(pack'.candidate_fields, pack.candidate_fields)
          /\ IsSubsequence(pack'.candidate_datasets, pack.candidate_datasets)
          /\ IsSubsequence(pack'.candidate_operators, pack.candidate_operators)
          /\ IsSubsequence(pack'.selected_subcategories, pack.selected_subcategories)]_vars

\* A shrink step removed a field and survivors of both lanes remain among the
\* fields and the operators.
C19_Witness ==
    /\ InEnforcement
    /\ last_step.kind = "shrink"
    /\ Len(enforcement.fallback_steps) = 1
    /\ Column(pack.candidate_fields, "id") # last_step.signature_before[1]
    /\ InLane(pack.candidate_fields, "exploit") # <<>>
    /\ InLane(pack.candidate_fields, "explore") # <<>>
    /\ InLane(pack.candidate_operators, "explore") # <<>>

\* The explore datasets _select_datasets_by_lane returns for the built pack.
ExploreDatasets ==
    SelectDatasetsByLane(catalog, rbudget,
                         SelectSubcategories(RankSubcategories(catalog), rbudget)).explore

\* C20 as stated: in a built pack the explore lane holds a field, an operator
\* and a dataset whenever the catalog holds one.
C20_ExploreNeverEmpty ==
    AsBuilt =>
        /\ catalog.fields # <<>> => pack.lanes.explore.field_ids # <<>>
        /\ catalog.operators # <<>> => pack.lanes.explore.operator_names # <<>>
        /\ catalog.datasets # <<>> => ExploreDatasets # <<>>

\* C20 amended: in a built pack the explore selection holds a field, or an
\* operator, whenever the catalog holds one that the exploit lane did not
\* select, and the explore dataset selection holds a dataset whenever the
\* catalog holds one.
C20_ExploreFilledBeyondExploit ==
    AsBuilt =>
        /\ (\E i \in 1..Len(catalog.fields) :
                catalog.fields[i].id \notin Range(pack.lanes.exploit.field_ids))
              => pack.lanes.explore.field_ids # <<>>
        /\ (\E i \in 1..Len(catalog.operators) :
                catalog.operators[i].name \notin Range(pack.lanes.exploit.operator_names))
              => pack.lanes.explore.operator_names # <<>>
        /\ catalog.datasets # <<>> => ExploreDatasets # <<>>

\* A pack built with explore budgets 0 for a catalog with entries beyond the
\* exploit lane: the explore lane was refilled with one field and one operator.
C20_Witness ==
    /\ AsBuilt
    /\ rbudget.explore.operators = 0
    /\ rbudget.explore.fields = 0
    /\ Len(pack.lanes.explore.operator_names) = 1
    /\ Len(pack.lanes.explore.field_ids) = 1
    /\ pack.lanes.explore.operator_names[1] \notin Range(pack.lanes.exploit.operator_names)
    /\ ExploreDatasets # <<>>

\* A built pack whose exploit lane took every operator of the catalog.
ExploreOperatorsEmpty ==
    /\ AsBuilt
    /\ catalog.operators # <<>>
    /\ pack.lanes.explore.operator_names = <<>>

\* C21: an event-order violation never blocks the run. A run that reached the
\* order check has returned or is about to publish its closing events; in a
\* returned run run.summary occurs exactly once and is the last event, its
\* event_order_violation flag is the verdict of the check on the events before
\* the closing ones, validation.event_order_violation occurs exactly once,
\* directly before run.summary, when the flag is set, and never otherwise;
\* before the return neither of the two events is in the log.
ViolationEvents == CountIn(events, {"validation.event_order_violation"})
Summaries == CountIn(events, {"run.summary"})

Published == SubSeq(events, 1, Len(events) - Len(SummaryEvents(event_order_violation)))

C21_ViolationNeverBlocks ==
    /\ pc = "done" =>
          /\ Summaries = 1
          /\ events[Len(events)] = "run.summary"
          /\ event_order_violation
                = DetectEventOrderViolation(Published, simulate /\ validation_passed)
          /\ event_order_violation =>
                /\ ViolationEvents = 1
                /\ events[Len(events) - 1] = "validation.event_order_violation"
          /\ ~event_order_violation => ViolationEvents = 0
    /\ pc # "done" => Summaries = 0 /\ ViolationEvents = 0

\* A run whose validation passed, whose log lacks agent.alpha_generated, has
\* returned with the flag set.
C21_Witness ==
    /\ pc = "done"
    /\ validation_passed
    /\ event_order_violation
    /\ events[1] = "validation.started"
    /\ Len(events) >= 5

\* A run has returned without a violation.
RunReturnedInOrder == pc = "done" /\ ~event_order_violation /\ validation_passed

\* The repeat count of the failed validation a step of the loop has just made.
RepeatCountOfStep == RepeatStreak(signatures, signatures'[Len(signatures')]) + 1

\* A step of the loop made a failed validation with repeat_count at or above the
\* threshold, attempts remaining, stop_on_repeated_error set and the expansion
\* used already or disabled.
FailedOnRepeat ==
    /\ pc = "loop"
    /\ Len(signatures') = Len(signatures) + 1
    /\ attempts < max_repair_attempts
    /\ stop_on_repeated_error
    /\ RepeatCountOfStep >= ExpansionThreshold(expansion_policy)
    /\ retrieval_expanded \/ ~ExpansionEnabled(expansion_policy)

Aborts == CountIn(events, {"validation.retry_aborted_repeated_error"})

\* C24: a failed validation with repeat_count at or above the threshold, with
\* attempts remaining, stop_on_repeated_error enabled and no expansion taken in
\* that step, emits validation.retry_aborted_repeated_error after its failed
\* event and leaves the loop as failed; the abort event is the last validation
\* event of the run: no validation.retry_started and no repair (the loop is not
\* entered again) follows it.
C24_AbortOnRepeatedError ==
    /\ [][FailedOnRepeat =>
            /\ events' = events
                   \o <<IF attempts = 0 THEN "validation.failed"
                        ELSE "validation.retry_failed",
                        "validation.retry_aborted_repeated_error">>
            /\ pc' = "post"
            /\ ~validation_passed']_vars
    /\ [](Aborts >= 1 =>
            /\ Aborts = 1
            /\ pc # "loop"
            /\ ~validation_passed
            /\ \A i \in 1..Len(events) :
                  events[i] = "validation.retry_aborted_repeated_error" =>
                      \A k \in (i + 1)..Len(events) :
                          events[k] \notin ValidationEvents
                                           \cup {"validation.retry_started",
                                                 "validation.retrieval_expanded"})

\* A returned run that expanded its retrieval once, repaired, failed again with
\* the same codes and aborted with attempts remaining.
C24_Witness ==
    /\ pc = "done"
    /\ Aborts = 1
    /\ retrieval_expanded
    /\ RetriesStarted >= 1
    /\ attempts < max_repair_attempts
    /\ ~validation_passed

\* ---- the configured fallback steps and the order of the shrink steps ----
DefaultFallbackSteps == <<85, 70, 55, 40>>

\* LLMBudgetConfig._validate_fallback_steps(value), factors in percent: the
\* steps outside (0, 1) are dropped, an empty result is replaced by the default.
ValidateFallbackSteps(value) ==
    IF SelectSeq(value, LAMBDA step : ~(step <= 0 \/ step >= 100)) = <<>>
    THEN DefaultFallbackSteps
    ELSE SelectSeq(value, LAMBDA step : ~(step <= 0 \/ step >= 100))

\* fallback_topk_steps as configuration files list them.
ConfiguredSteps == { <<85, 40>>, <<70, 85>>, <<100, 0>>, <<0, 70, 100, 55>> }

\* The pack builder and the budget enforcement on the larger catalog, for each
\* configured list of fallback steps.
InitSteps ==
    /\ IdleLoop
    /\ IdleGate
    /\ IdleBus
    /\ IdleCopy
    /\ IdleRuns
    /\ IdleEstimate
    /\ IdleDay
    /\ catalog \in {c \in Catalogs : Len(c.fields) > 2}
    /\ rbudget \in {b \in RetrievalBudgets :
                       /\ b.exploit.subcategories = 2 /\ b.exploit.datasets = 2
                       /\ b.explore.datasets = 1
                       /\ b.exploit.fields = MaxLaneBudget
                       /\ b.explore.fields = MaxLaneBudget
                       /\ b.exploit.operators = MaxLaneBudget
                       /\ b.explore.operators \in {1, MaxLaneBudget}}
    /\ \E configured \in ConfiguredSteps, lb \in LLMBudgets :
          lbudget = [lb EXCEPT !.fallback_topk_steps = ValidateFallbackSteps(configured)]
    /\ pack = NoPack
    /\ last_step = [kind |-> "none", phase |-> 0, factor |-> 0, allowed |-> FALSE,
                    signature_before |-> <<>>]
    /\ pack_expansions = 0
    /\ enforcement = NoEnforcement
    /\ alpha_maker = NoPolicy

SpecSteps == InitSteps /\ [][NextPack]_vars

PhaseRank(phase) == CHOOSE i \in 1..Len(Phases) : Phases[i] = phase

\* The retention factor of an applied step (the step records its position in
\* budget.fallback_topk_steps).
FactorOf(step) == lbudget.fallback_topk_steps[step.factor]

AppliedSteps == IF InEnforcement THEN enforcement.fallback_steps ELSE <<>>

\* The applied steps go through the phases fields, operators, subcategories in
\* this order and, within a phase, through the configured factors in the order
\* the configuration lists them.
StepsInConfiguredOrder ==
    \A i, j \in 1..Len(AppliedSteps) :
        i < j =>
            /\ PhaseRank(AppliedSteps[i].phase) <= PhaseRank(AppliedSteps[j].phase)
            /\ AppliedSteps[i].phase = AppliedSteps[j].phase =>
                  AppliedSteps[i].factor < AppliedSteps[j].factor

\* C25: the applied shrink steps occur in phase order fields, operators,
\* subcategories, no step of an earlier phase follows a step of a later phase,
\* and within each phase the retention factors are applied in descending
\* order, whatever order the configuration lists them in.
C25_PhasesThenDescendingFactors ==
    \A i, j \in 1..Len(AppliedSteps) :
        i < j =>
            /\ PhaseRank(AppliedSteps[i].phase) <= PhaseRank(AppliedSteps[j].phase)
            /\ AppliedSteps[i].phase = AppliedSteps[j].phase =>
                  FactorOf(AppliedSteps[i]) >= FactorOf(AppliedSteps[j])

\* Two steps of the fields phase were applied with the larger factor second.
StepsAscending ==
    /\ Len(AppliedSteps) >= 2
    /\ AppliedSteps[1].phase = "fields"
    /\ AppliedSteps[2].phase = "fields"
    /\ FactorOf(AppliedSteps[1]) < FactorOf(AppliedSteps[2])

\* Steps of all three phases were applied, the default factors in force.
StepsOfEveryPhase ==
    /\ lbudget.fallback_topk_steps = DefaultFallbackSteps
    /\ {AppliedSteps[k].phase : k \in 1..Len(AppliedSteps)} = Range(Phases)

\* The number of explore-tagged rows of a candidate list.
ExploreCount(rows) == Len(InLane(rows, "explore"))

\* C26: every field or operator shrink step respects the minimum-explore
\* floor: with m the floor target of the lane (the smaller of
\* min_explore_candidates_per_batch and the explore count of the original
\* pack), a step that finds at least m explore fields (operators) leaves at
\* least m of them, so no such step turns explore_floor from kept to exceeded.
C26_ShrinkRespectsExploreFloor ==
    [][(InEnforcement /\ last_step'.kind = "shrink"
           /\ Phases[last_step'.phase] \in {"fields", "operators"}) =>
          /\ ExploreCount(pack.candidate_fields) >= enforcement.explore_floor_targets[1]
                => ExploreCount(pack'.candidate_fields)
                      >= enforcement.explore_floor_targets[1]
          /\ ExploreCount(pack.candidate_operators) >= enforcement.explore_floor_targets[2]
                => ExploreCount(pack'.candidate_operators)
                      >= enforcement.explore_floor_targets[2]]_vars

\* The first applied step, a step of the fields phase, removed the last explore
\* field of a pack whose floor target for fields is 1.
ExploreFloorLostByShrink ==
    /\ InEnforcement
    /\ last_step.kind = "shrink"
    /\ Phases[last_step.phase] = "fields"
    /\ Len(enforcement.fallback_steps) = 1
    /\ enforcement.explore_floor_targets[1] = 1
    /\ ExploreCount(pack.candidate_fields) = 0
    /\ enforcement.evaluation.exceeded.explore_floor

\* The floor is kept by a step that leaves room for both lanes: a step to a
\* target of at least two rows keeps an explore row when the floor target is 1.
ExploreFloorKeptAboveOne ==
    [][(InEnforcement /\ last_step'.kind = "shrink"
           /\ Phases[last_step'.phase] \in {"fields", "operators"}) =>
          /\ (enforcement.explore_floor_targets[1] = 1
                 /\ ExploreCount(pack.candidate_fields) >= 1
                 /\ Len(pack'.candidate_fields) >= 2)
                => ExploreCount(pack'.candidate_fields) >= 1
          /\ (enforcement.explore_floor_targets[2] = 1
                 /\ ExploreCount(pack.candidate_operators) >= 1
                 /\ Len(pack'.candidate_operators) >= 2)
                => ExploreCount(pack'.candidate_operators) >= 1]_vars

\* The original statement of C14: a blocked budget never leaves
\* run_alpha_maker as an exception.
C14_BlockedBudgetNeverRaised == alpha_maker.pc # "raised"

\* C14: enforce_alpha_prompt_budget returns a blocked budget as a
\* BudgetEnforcementResult with allowed=false, and _apply_alpha_budget_policy
\* raises BudgetBlockedError out of run_alpha_maker exactly for such a result,
\* after the budget.check_failed and budget.blocked events, with the exceeded
\* flags as its reasons; an allowed result is returned to generation.
C14_BlockedBudgetRaisedByPolicy ==
    /\ (InEnforcement /\ last_step.kind = "exhausted") => ~BudgetEnforcementResult.allowed
    /\ alpha_maker.pc # "idle" =>
          /\ Returned
          /\ (alpha_maker.pc = "raised") = ~BudgetEnforcementResult.allowed
          /\ (alpha_maker.pc = "generating") = BudgetEnforcementResult.allowed
          /\ Len(alpha_maker.events) >= Len(BudgetEnforcementResult.fallback_steps) + 1
          /\ alpha_maker.pc = "raised" =>
                /\ last_step.kind = "exhausted"
                /\ SubSeq(alpha_maker.events, Len(alpha_maker.events) - 1,
                          Len(alpha_maker.events)) = <<"budget.check_failed", "budget.blocked">>
                /\ alpha_maker.reasons # {}
                /\ \A k \in DOMAIN enforcement.evaluation.exceeded :
                      (k \in alpha_maker.reasons) = enforcement.evaluation.exceeded[k]

\* run_alpha_maker raised BudgetBlockedError for a budget blocked after three
\* applied shrink steps.
C14_Witness ==
    /\ alpha_maker.pc = "raised"
    /\ Len(enforcement.fallback_steps) = 3
    /\ "request_prompt" \in alpha_maker.reasons

\* ValidationLoopOrchestrator.run never raises because the validation failed:
\* a run that raised without a passed validation raised in the pack rebuild
\* of its expansion.
FailedLoopNeverRaised ==
    (pc = "raised" /\ ~validation_passed) => (expand_calls > 0 /\ ~retrieval_expanded)

\* A run that used up its repair attempts and returned validation_passed=false.
FailedLoopReturned ==
    /\ pc = "done"
    /\ ~validation_passed
    /\ max_repair_attempts > 0
    /\ attempts = max_repair_attempts

\* Every failed validation of the run so far had the same error signature.
AllSame(sigs) == \A i \in 1..Len(sigs) : sigs[i] = sigs[1]

FailedEvents == {"validation.failed", "validation.retry_failed"}

\* C16: with expansion enabled and threshold T, in a run whose failed
\* validations all have the same error signature, the pack is expanded at the
\* T-th failed validation if attempts remain there (T <= max_repair_attempts),
\* and at no other: once the run has T failures there was exactly one
\* expansion, before that none, and the retrieval_expanded event follows the
\* T-th failed event.
C16_ExpansionAtThreshold ==
    (ExpansionEnabled(expansion_policy) /\ AllSame(signatures) /\ pc # "idle") =>
        /\ expand_calls = IF /\ Len(signatures) >= ExpansionThreshold(expansion_policy)
                             /\ ExpansionThreshold(expansion_policy) <= max_repair_attempts
                          THEN 1 ELSE 0
        /\ \A i \in 1..Len(events) :
              events[i] = "validation.retrieval_expanded" =>
                 /\ events[i - 1] \in FailedEvents
                 /\ CountIn(SubSeq(events, 1, i), FailedEvents)
                       = ExpansionThreshold(expansion_policy)

\* max_repair_attempts = 3 and T = 2: four failed validations with one
\* signature, one expansion, after the second failed event.
C16_Witness ==
    /\ pc = "done"
    /\ max_repair_attempts = 3
    /\ expansion_policy = [enabled |-> TRUE, trigger |-> 2]
    /\ Len(signatures) = 4
    /\ AllSame(signatures)
    /\ expand_calls = 1
    /\ retrieval_expanded
    /\ CountIn(events, {"validation.retrieval_expanded"}) = 1

(***************************************************************************)
(* The event order check on arbitrary run logs                             *)
(***************************************************************************)

\* Longest run log the check is applied to.
MaxLogLen == 4

OrderEvents == {"agent.alpha_generated", "validation.started", "validation.failed",
                "validation.passed", "evaluation.completed"}

\* A run log read back from the store, before the check is applied.
InitOrder ==
    /\ pc = "order"
    /\ events \in SeqsUpTo(OrderEvents, MaxLogLen)
    /\ simulate \in BOOLEAN
    /\ validation_passed \in BOOLEAN
    /\ event_order_violation = FALSE
    /\ max_repair_attempts = 0
    /\ stop_on_repeated_error = FALSE
    /\ expansion_policy = [enabled |-> FALSE, trigger |-> 0]
    /\ attempts = 0
    /\ signatures = <<>>
    /\ error_codes = <<>>
    /\ event_codes = <<>>
    /\ retrieval_expanded = FALSE
    /\ expand_calls = 0
    /\ runner_calls = 0
    /\ notes = [validation_passed |-> FALSE, validation_attempts |-> 0]
    /\ collab = [evaluator_bus |-> TRUE, enforce_validation_gate |-> FALSE]
    /\ IdleGate
    /\ IdlePack
    /\ IdleBus
    /\ IdleCopy
    /\ IdleRuns
    /\ IdleEstimate
    /\ IdleDay

\* run(): line 303, the call of _detect_event_order_violation
DetectOrder ==
    /\ pc = "order"
    /\ event_order_violation' = DetectEventOrderViolation(events, simulate /\ validation_passed)
    /\ pc' = "checked"
    /\ UNCHANGED <<max_repair_attempts, stop_on_repeated_error, simulate, expansion_policy,
                   attempts, signatures, error_codes, event_codes, retrieval_expanded,
                   validation_passed, events, expand_calls, runner_calls, notes, collab>>

NextOrder == DetectOrder /\ UNCHANGED <<gateVars, packVars, busVars, copyVars, runsVars, estimateVars, dayVars>>

SpecOrder == InitOrder /\ [][NextOrder]_vars

\* A validation.started event occurs after an agent.alpha_generated event.
StartAfterAlpha(evs) ==
    \E i \in 1..Len(evs) : \E j \in (i + 1)..Len(evs) :
        evs[i] = "agent.alpha_generated" /\ evs[j] = "validation.started"

\* C15: the check returns true for every run log in which no
\* validation.started event occurs after the agent.alpha_generated event,
\* also when the log holds no validation.started, no agent.alpha_generated or
\* no event at all.
C15_MissingStartIsViolation ==
    (pc = "checked" /\ ~StartAfterAlpha(events)) => event_order_violation

\* A log with both events, validation.started first, was reported; and the
\* check does return false on other logs.
C15_Witness ==
    /\ pc = "checked"
    /\ events = <<"validation.started", "agent.alpha_generated", "validation.failed",
                  "evaluation.completed">>
    /\ event_order_violation

OrderCheckPasses ==
    /\ pc = "checked"
    /\ StartAfterAlpha(events)
    /\ ~event_order_violation

(***************************************************************************)
(* Event bus (runtime/event_bus.py) and the telemetry of a pipeline run:   *)
(* the events ValidationLoopOrchestrator.run publishes on the bus, the     *)
(* events SimulationRunner.run_candidate writes to the store itself, and   *)
(* the read of the event log by _detect_event_order_violation.  A fault is *)
(* an exception raised by the store or by a sink.                          *)
(***************************************************************************)

Severities == {"info", "warn", "error"}

\* Largest number of faulty telemetry calls in one run.
MaxFaults == 2

Registered(sink_list) == {sink_list[i] : i \in 1..Len(sink_list)}

\* publish(): the AgentEventEnvelope row (event type and normalised severity)
Envelope(event_type, severity) ==
    [event_type |-> event_type,
     severity |-> IF severity \in Severities THEN severity ELSE "info"]

\* publish(): "for sink in list(self._sinks): try: sink(row) except: continue"
RECURSIVE Forward(_, _, _, _)
Forward(rows, sink_list, row, failing) ==
    IF sink_list = <<>> THEN rows
    ELSE Forward(IF Head(sink_list) \in failing THEN rows
                 ELSE [rows EXCEPT ![Head(sink_list)] = Append(@, row)],
                 Tail(sink_list), row, failing)

\* publish(): "if self.store is not None: try: append_event except: pass"
Persisted(log, event_type, store_fault) ==
    IF bus_store /\ ~store_fault THEN Append(log, event_type) ELSE log

\* The run at position next_pc with the validation verdict `passed`.
RunAt(next_pc, passed) == [bus_run EXCEPT !.pc = next_pc, !.validation_passed = passed]

\* EventBus.publish(event_type, severity, ...) called by the run, which then
\* goes on as next_run; store_fault: store.append_event raises; failing: the
\* sinks that raise.
Publish(event_type, severity, store_fault, failing, next_run) ==
    /\ store_fault => bus_store
    /\ failing \subseteq Registered(bus_sinks)
    /\ (store_fault \/ failing # {}) => bus_run.faults < MaxFaults
    /\ event_log' = Persisted(event_log, event_type, store_fault)
    /\ sink_rows' = Forward(sink_rows, bus_sinks, Envelope(event_type, severity), failing)
    /\ bus_run' = [next_run EXCEPT
                      !.faults = IF store_fault \/ failing # {} THEN @ + 1 ELSE @,
                      !.returned = <<Envelope(event_type, severity)>>,
                      !.call = [made |-> TRUE, event_type |-> event_type,
                                severity |-> severity, store_fault |-> store_fault,
                                failing |-> failing, sinks |-> bus_sinks,
                                log_before |-> event_log, rows_before |-> sink_rows]]
    /\ UNCHANGED <<bus_store, bus_sinks>>

\* EventBus.register_sink(sink), before the run publishes
RegisterSink(sink) ==
    /\ bus_run.pc = "start"
    /\ bus_sinks' = IF \E i \in 1..Len(bus_sinks) : bus_sinks[i] = sink
                    THEN bus_sinks ELSE Append(bus_sinks, sink)
    /\ UNCHANGED <<bus_store, event_log, sink_rows, bus_run>>

\* EventBus.remove_sink(sink)
RemoveSink(sink) ==
    /\ bus_run.pc = "start"
    /\ bus_sinks' = SelectSeq(bus_sinks, LAMBDA item : item # sink)
    /\ UNCHANGED <<bus_store, event_log, sink_rows, bus_run>>

InitBus ==
    /\ bus_store \in BOOLEAN
    /\ bus_sinks = <<>>
    /\ event_log \in {<<>>, <<"agent.alpha_generated">>}
    /\ sink_rows = [s \in Sinks |-> <<>>]
    /\ bus_run \in [pc : {"start"}, simulate : BOOLEAN, validation_passed : {FALSE},
                    fault : {"none"}, faults : {0}, returned : {<<>>}, call : {NoCall}]
    /\ IdleLoop
    /\ IdleGate
    /\ IdlePack
    /\ IdleCopy
    /\ IdleRuns
    /\ IdleEstimate
    /\ IdleDay

\* run(): line 98, the validation.started event
RunStarted(store_fault, failing) ==
    /\ bus_run.pc = "start"
    /\ Publish("validation.started", "info", store_fault, failing,
               RunAt("loop", FALSE))

\* run(): lines 113-145, a validation whose verdict is `passed`, with its event
RunValidated(passed, store_fault, failing) ==
    /\ bus_run.pc = "loop"
    /\ Publish(IF passed THEN "validation.passed" ELSE "validation.failed",
               IF passed THEN "info" ELSE "warn", store_fault, failing,
               RunAt("post", passed))

\* SimulationRunner.run_candidate: the events it writes with store.append_event
RunnerWrites(outcome) ==
    IF outcome = "duplicate" THEN <<"simulation_skipped_duplicate">>
    ELSE <<"simulation.enqueued", "simulation.started",
           "simulation.completed", "simulation_completed">>

\* run(): lines 231-241, run_candidate on a validated candidate.  fault_at = 0:
\* every store.append_event returns; fault_at = k: the k-th one raises, and the
\* exception leaves run_candidate and run().
RunCandidate(outcome, fault_at) ==
    /\ bus_run.pc = "post"
    /\ bus_run.validation_passed /\ bus_run.simulate
    /\ fault_at \in 0..Len(RunnerWrites(outcome))
    /\ fault_at # 0 => bus_run.faults < MaxFaults
    /\ IF fault_at = 0
       THEN /\ event_log' = event_log \o RunnerWrites(outcome)
            /\ bus_run' = [bus_run EXCEPT !.pc = "evaluate"]
       ELSE /\ event_log' = event_log \o SubSeq(RunnerWrites(outcome), 1, fault_at - 1)
            /\ bus_run' = [bus_run EXCEPT !.pc = "raised", !.fault = "event_write",
                                          !.faults = @ + 1]
    /\ UNCHANGED <<bus_store, bus_sinks, sink_rows>>

\* run(): lines 264-290, the event published when no simulation is run
RunSkipped(store_fault, failing) ==
    /\ bus_run.pc = "post"
    /\ ~(bus_run.validation_passed /\ bus_run.simulate)
    /\ Publish(IF bus_run.validation_passed THEN "simulation.skipped_by_option"
               ELSE "simulation.blocked_validation", "warn", store_fault, failing,
               RunAt("evaluate", bus_run.validation_passed))

\* Evaluator.evaluate -> _emit_completed_event on the bus
RunEvaluated(store_fault, failing) ==
    /\ bus_run.pc = "evaluate"
    /\ Publish("evaluation.completed", "info", store_fault, failing,
               RunAt("order", bus_run.validation_passed))

\* run(): lines 303-317, _detect_event_order_violation reads the event log of
\* the run from the store (read_fault: the read raises, and the exception
\* leaves run()) and a violation is published.
RunDetect(read_fault, store_fault, failing) ==
    /\ bus_run.pc = "order"
    /\ read_fault => bus_run.faults < MaxFaults
    /\ IF read_fault
       THEN /\ bus_run' = [bus_run EXCEPT !.pc = "raised", !.fault = "event_read",
                                          !.faults = @ + 1]
            /\ UNCHANGED <<bus_store, bus_sinks, event_log, sink_rows>>
       ELSE IF DetectEventOrderViolation(event_log,
                                         bus_run.simulate /\ bus_run.validation_passed)
       THEN Publish("validation.event_order_violation", "error", store_fault, failing,
                    RunAt("summary", bus_run.validation_passed))
       ELSE /\ bus_run' = [bus_run EXCEPT !.pc = "summary"]
            /\ UNCHANGED <<bus_store, bus_sinks, event_log, sink_rows>>

\* run(): lines 330-339, the run.summary event and the return of the result
RunSummary(store_fault, failing) ==
    /\ bus_run.pc = "summary"
    /\ Publish("run.summary", "info", store_fault, failing,
               RunAt("done", bus_run.validation_passed))

NextBus ==
    \/ (\E sink \in Sinks : RegisterSink(sink)) /\ UNCHANGED <<loopVars, gateVars, packVars, copyVars, runsVars, estimateVars, dayVars>>
    \/ (\E sink \in Sinks : RemoveSink(sink)) /\ UNCHANGED <<loopVars, gateVars, packVars, copyVars, runsVars, estimateVars, dayVars>>
    \/ (\E store_fault \in BOOLEAN, failing \in SUBSET Sinks :
            RunStarted(store_fault, failing)) /\ UNCHANGED <<loopVars, gateVars, packVars, copyVars, runsVars, estimateVars, dayVars>>
    \/ (\E passed \in BOOLEAN, store_fault \in BOOLEAN, failing \in SUBSET Sinks :
            RunValidated(passed, store_fault, failing))
       /\ UNCHANGED <<loopVars, gateVars, packVars, copyVars, runsVars, estimateVars, dayVars>>
    \/ (\E outcome \in {"completed", "duplicate"}, fault_at \in 0..4 :
            RunCandidate(outcome, fault_at)) /\ UNCHANGED <<loopVars, gateVars, packVars, copyVars, runsVars, estimateVars, dayVars>>
    \/ (\E store_fault \in BOOLEAN, failing \in SUBSET Sinks :
            RunSkipped(store_fault, failing)) /\ UNCHANGED <<loopVars, gateVars, packVars, copyVars, runsVars, estimateVars, dayVars>>
    \/ (\E store_fault \in BOOLEAN, failing \in SUBSET Sinks :
            RunEvaluated(store_fault, failing)) /\ UNCHANGED <<loopVars, gateVars, packVars, copyVars, runsVars, estimateVars, dayVars>>
    \/ (\E read_fault \in BOOLEAN, store_fault \in BOOLEAN, failing \in SUBSET Sinks :
            RunDetect(read_fault, store_fault, failing))
       /\ UNCHANGED <<loopVars, gateVars, packVars, copyVars, runsVars, estimateVars, dayVars>>
    \/ (\E store_fault \in BOOLEAN, failing \in SUBSET Sinks :
            RunSummary(store_fault, failing)) /\ UNCHANGED <<loopVars, gateVars, packVars, copyVars, runsVars, estimateVars, dayVars>>

SpecBus == InitBus /\ [][NextBus]_vars

(***************************************************************************)
(* Event bus properties                                                    *)
(***************************************************************************)

\* publish() returned the envelope, every sink that did not raise received it
\* (also those registered after a sink that raised) and the others nothing.
PublishSwallowsFaults ==
    bus_run.call.made =>
        /\ bus_run.returned = <<Envelope(bus_run.call.event_type, bus_run.call.severity)>>
        /\ \A s \in Sinks :
              sink_rows[s] =
                 IF (\E i \in 1..Len(bus_run.call.sinks) : bus_run.call.sinks[i] = s)
                    /\ s \notin bus_run.call.failing
                 THEN Append(bus_run.call.rows_before[s], bus_run.returned[1])
                 ELSE bus_run.call.rows_before[s]

\* C13: a fault of the store or of a sink is swallowed: publish still returns
\* the envelope and delivers to the remaining sinks, and no fault of an event
\* write or of an event read ends the run with an exception.
C13_TelemetryFaultNeverAborts ==
    /\ PublishSwallowsFaults
    /\ ~(bus_run.pc = "raised" /\ bus_run.fault \in {"event_write", "event_read"})

\* run_candidate's own write of simulation.enqueued raised and ended the run.
RunAbortedByEventWrite ==
    /\ bus_run.pc = "raised"
    /\ bus_run.fault = "event_write"
    /\ bus_run.validation_passed
    /\ event_log # <<>>
    /\ event_log[Len(event_log)] = "validation.passed"

\* The read of the event log raised and ended the run.
RunAbortedByEventRead ==
    /\ bus_run.pc = "raised"
    /\ bus_run.fault = "event_read"

\* A publish in which the store and the first sink raised and the second sink
\* still received the row.
PublishWithFaults ==
    /\ bus_run.call.made
    /\ bus_run.call.store_fault
    /\ Len(bus_run.call.sinks) = 2
    /\ bus_run.call.failing = {bus_run.call.sinks[1]}
    /\ sink_rows[bus_run.call.sinks[2]] # bus_run.call.rows_before[bus_run.call.sinks[2]]

(***************************************************************************)
(* Object identity of the candidate and the pack in run() and              *)
(* repair_candidate (validation_loop.py, validation_gate.py)               *)
(***************************************************************************)
\* _infer_used_operators(expression): the names directly before "("
InferUsedOperators(expression) ==
    Unique(SelectSeq([i \in 1..Len(expression) |->
                         IF /\ expression[i] \in Idents
                            /\ SkipSpaces(expression, i + 1) <= Len(expression)
                            /\ expression[SkipSpaces(expression, i + 1)] = "("
                         THEN expression[i] ELSE NoName],
                     LAMBDA t : t # NoName))

\* _infer_used_fields(expression): the identifiers that are no operator call
InferUsedFields(expression) ==
    Unique(SelectSeq(IdentFindAll(expression),
                     LAMBDA t : t \notin Range(InferUsedOperators(expression))))

\* A CandidateAlpha object: the addresses of its nested objects.
Candidate(settings, generation_notes) ==
    [simulation_settings |-> settings, generation_notes |-> generation_notes]

NoCandidate == Candidate(NoObject, NoObject)

\* The value of a candidate object on the heaps.
ValueOf(sh, nh, c) ==
    [regular |-> sh[c.simulation_settings].regular, notes |-> nh[c.generation_notes]]

\* A copy that shares the nested objects with its original.
ModelCopyShallow(sh, nh, c) == [settings_heap |-> sh, notes_heap |-> nh, object |-> c]

\* candidate.model_copy(deep=True): new nested objects with the same values
ModelCopy(sh, nh, c) ==
    [settings_heap |-> Append(sh, sh[c.simulation_settings]),
     notes_heap |-> Append(nh, nh[c.generation_notes]),
     object |-> Candidate(Len(sh) + 1, Len(nh) + 1)]

\* repair_candidate: the writes to the repaired object (lines 168-177)
Repaired(copy, expression) ==
    [settings_heap |-> [copy.settings_heap EXCEPT
                           ![copy.object.simulation_settings].regular = expression],
     notes_heap |-> [copy.notes_heap EXCEPT
                        ![copy.object.generation_notes].used_fields =
                            InferUsedFields(expression),
                        ![copy.object.generation_notes].used_operators =
                            InferUsedOperators(expression)],
     object |-> copy.object]

\* repair_candidate(candidate, issues, retrieval_pack) returning `expression`
RepairCandidate(sh, nh, c, expression) == Repaired(ModelCopy(sh, nh, c), expression)

\* The expressions the callers pass and the repairs return.
CopyExpressions ==
    { <<"rank", "(", "close", ")">>,
      <<"zscore", "(", "ts_delta", "(", "f1", ",", SpaceLexeme, "5", ")", ")">>,
      <<"group_rank", "(", "x9", ",", SpaceLexeme, "g1", ")">> }

NotesOf(expression, passed, validation_attempts) ==
    [used_fields |-> InferUsedFields(expression),
     used_operators |-> InferUsedOperators(expression),
     validation_passed |-> passed, validation_attempts |-> validation_attempts]

\* State at the call of run(candidate, retrieval_pack) or of repair_candidate.
InitCopy ==
    /\ \E expression \in CopyExpressions :
          /\ settings_heap = <<[regular |-> expression]>>
          /\ notes_heap = <<NotesOf(expression, FALSE, 0)>>
    /\ packs_heap = <<[expanded |-> FALSE]>>
    /\ copy_run = [pc |-> "start", candidate |-> Candidate(1, 1), retrieval_pack |-> 1,
                   working_candidate |-> NoCandidate, working_pack |-> NoObject,
                   attempts |-> 0]
    /\ earlier = <<>>
    /\ IdleLoop
    /\ IdleGate
    /\ IdlePack
    /\ IdleBus
    /\ IdleRuns
    /\ IdleEstimate
    /\ IdleDay

\* The record kept of an attempt when its repair is called.
Attempt(c) == [object |-> c, value |-> ValueOf(settings_heap, notes_heap, c)]

\* A caller's own call  gate.repair_candidate(candidate=candidate, ...)
RepairCall(expression) ==
    /\ copy_run.pc = "start"
    /\ earlier = <<>>
    /\ settings_heap' = RepairCandidate(settings_heap, notes_heap, copy_run.candidate,
                                        expression).settings_heap
    /\ notes_heap' = RepairCandidate(settings_heap, notes_heap, copy_run.candidate,
                                     expression).notes_heap
    /\ earlier' = <<Attempt(copy_run.candidate)>>
    /\ UNCHANGED <<packs_heap, copy_run>>

\* run(): lines 90-91, the working copies
CopyStart ==
    /\ copy_run.pc = "start"
    /\ settings_heap' = ModelCopy(settings_heap, notes_heap, copy_run.candidate).settings_heap
    /\ notes_heap' = ModelCopy(settings_heap, notes_heap, copy_run.candidate).notes_heap
    /\ packs_heap' = Append(packs_heap, packs_heap[copy_run.retrieval_pack])
    /\ copy_run' = [copy_run EXCEPT
                       !.pc = "loop",
                       !.working_candidate =
                           ModelCopy(settings_heap, notes_heap, copy_run.candidate).object,
                       !.working_pack = Len(packs_heap) + 1]
    /\ UNCHANGED earlier

\* run(): line 161, working_pack = self._expand_retrieval_pack(...), a new pack
CopyExpand ==
    /\ copy_run.pc = "loop"
    /\ ~packs_heap[copy_run.working_pack].expanded
    /\ packs_heap' = Append(packs_heap, [expanded |-> TRUE])
    /\ copy_run' = [copy_run EXCEPT !.working_pack = Len(packs_heap) + 1]
    /\ UNCHANGED <<settings_heap, notes_heap, earlier>>

\* run(): lines 156 and 218, working_candidate = self.gate.repair_candidate(...)
CopyRepair(expression) ==
    /\ copy_run.pc = "loop"
    /\ copy_run.attempts < MaxRepairBound
    /\ settings_heap' = RepairCandidate(settings_heap, notes_heap,
                                        copy_run.working_candidate, expression).settings_heap
    /\ notes_heap' = RepairCandidate(settings_heap, notes_heap,
                                     copy_run.working_candidate, expression).notes_heap
    /\ copy_run' = [copy_run EXCEPT
                       !.attempts = @ + 1,
                       !.working_candidate =
                           RepairCandidate(settings_heap, notes_heap,
                                           copy_run.working_candidate, expression).object]
    /\ earlier' = Append(earlier, Attempt(copy_run.working_candidate))
    /\ UNCHANGED packs_heap

\* run(): lines 224-225, the verdict written into the working candidate's notes
CopyFinish(passed) ==
    /\ copy_run.pc = "loop"
    /\ notes_heap' = [notes_heap EXCEPT
                         ![copy_run.working_candidate.generation_notes].validation_passed =
                             passed,
                         ![copy_run.working_candidate.generation_notes].validation_attempts =
                             copy_run.attempts + 1]
    /\ copy_run' = [copy_run EXCEPT !.pc = "done"]
    /\ UNCHANGED <<settings_heap, packs_heap, earlier>>

NextCopy ==
    \/ (\E expression \in CopyExpressions : RepairCall(expression))
       /\ UNCHANGED <<loopVars, gateVars, packVars, busVars, runsVars, estimateVars, dayVars>>
    \/ CopyStart /\ UNCHANGED <<loopVars, gateVars, packVars, busVars, runsVars, estimateVars, dayVars>>
    \/ CopyExpand /\ UNCHANGED <<loopVars, gateVars, packVars, busVars, runsVars, estimateVars, dayVars>>
    \/ (\E expression \in CopyExpressions : CopyRepair(expression))
       /\ UNCHANGED <<loopVars, gateVars, packVars, busVars, runsVars, estimateVars, dayVars>>
    \/ (\E passed \in BOOLEAN : CopyFinish(passed))
       /\ UNCHANGED <<loopVars, gateVars, packVars, busVars, runsVars, estimateVars, dayVars>>

SpecCopy == InitCopy /\ [][NextCopy]_vars

\* C22: repair_candidate and run() never modify the candidate or the pack
\* object passed to them: no step changes the value of the caller's candidate
\* or pack, and the candidate object of every earlier attempt still has the
\* expression and notes it had when its repair was called.
C22_InputsNeverModified ==
    /\ [][/\ ValueOf(settings_heap', notes_heap', copy_run.candidate)
               = ValueOf(settings_heap, notes_heap, copy_run.candidate)
          /\ packs_heap'[copy_run.retrieval_pack] = packs_heap[copy_run.retrieval_pack]
          /\ copy_run'.candidate = copy_run.candidate
          /\ copy_run'.retrieval_pack = copy_run.retrieval_pack]_vars
    /\ [](\A k \in 1..Len(earlier) :
              ValueOf(settings_heap, notes_heap, earlier[k].object) = earlier[k].value)

\* A run that repaired twice, expanded its pack and wrote its verdict: the
\* working objects differ in value from the objects passed in.
C22_Witness ==
    /\ copy_run.pc = "done"
    /\ Len(earlier) >= 2
    /\ packs_heap[copy_run.working_pack].expanded
    /\ ValueOf(settings_heap, notes_heap, copy_run.working_candidate)
         # ValueOf(settings_heap, notes_heap, copy_run.candidate)
    /\ earlier[1].value.regular # earlier[2].value.regular
    /\ notes_heap[copy_run.working_candidate.generation_notes].validation_attempts = 3

(***************************************************************************)
(* Several runs appending to one event log (validation_loop.py, the store) *)
(***************************************************************************)
RunIds == {"run-a", "run-b"}

\* A row of the event_log table as the store returns it: the envelope of
\* EventBus.publish and the payloads of the runner both carry run_id.
Record(run_id, event_type) == [run_id |-> run_id, event_type |-> event_type]

\* MetadataStore.list_event_records_for_run(run_id, limit): the rows of the run,
\* in the order they were appended.
ListEventRecordsForRun(log, run_id) == SelectSeq(log, LAMBDA r : r.run_id = run_id)

\* MetadataStore.list_event_records(limit): the rows of every run
ListEventRecords(log) == log

\* _event_type_from_record over the rows
EventTypes(records) == [i \in 1..Len(records) |-> records[i].event_type]

\* The check of a run over the rows of every run.
DetectOverAllRuns(log, run_id, expect_simulation) ==
    DetectEventOrderViolation(EventTypes(ListEventRecords(log)), expect_simulation)

\* _detect_event_order_violation(run_id, expect_simulation) on the shared log
DetectForRun(log, run_id, expect_simulation) ==
    DetectEventOrderViolation(EventTypes(ListEventRecordsForRun(log, run_id)),
                              expect_simulation)

\* What one run and its collaborators append before its order check, with the
\* expect_simulation argument of the check.
RunScript(script_events, expect_simulation) ==
    [events |-> script_events, expect_simulation |-> expect_simulation]

RunScripts ==
    { \* validation passed, simulation skipped by option
      RunScript(<<"agent.alpha_generated", "validation.started", "validation.passed",
                  "simulation.skipped_by_option", "evaluation.completed">>, FALSE),
      \* validation passed and simulated
      RunScript(<<"agent.alpha_generated", "validation.started", "validation.passed",
                  "simulation.enqueued", "simulation.started", "simulation.completed",
                  "evaluation.completed">>, TRUE),
      \* a run started without agent.alpha_generated
      RunScript(<<"validation.started", "validation.failed",
                  "simulation.blocked_validation", "evaluation.completed">>, FALSE),
      \* an evaluator without a bus: no evaluation.completed
      RunScript(<<"agent.alpha_generated", "validation.started", "validation.failed",
                  "simulation.blocked_validation">>, FALSE),
      \* a retry that never reported its outcome
      RunScript(<<"agent.alpha_generated", "validation.started", "validation.failed",
                  "validation.retry_started", "simulation.blocked_validation",
                  "evaluation.completed">>, FALSE) }

NoVerdict == [checked |-> FALSE, violation |-> FALSE]
Verdict(violation) == [checked |-> TRUE, violation |-> violation]

InitRuns ==
    /\ shared_log = <<>>
    /\ run_scripts \in [RunIds -> RunScripts]
    /\ run_verdicts = [r \in RunIds |-> NoVerdict]
    /\ IdleLoop
    /\ IdleGate
    /\ IdlePack
    /\ IdleBus
    /\ IdleCopy
    /\ IdleEstimate
    /\ IdleDay

Appended(run_id) == Len(ListEventRecordsForRun(shared_log, run_id))

\* A run (or its runner or evaluator) appends its next event.
RunAppend(run_id) ==
    /\ ~run_verdicts[run_id].checked
    /\ Appended(run_id) < Len(run_scripts[run_id].events)
    /\ shared_log' = Append(shared_log,
                            Record(run_id, run_scripts[run_id].events[Appended(run_id) + 1]))
    /\ UNCHANGED <<run_scripts, run_verdicts>>

\* run(): lines 303-338 of a run on the shared log, the check and its events
RunCheck(run_id) ==
    /\ ~run_verdicts[run_id].checked
    /\ Appended(run_id) = Len(run_scripts[run_id].events)
    /\ run_verdicts' =
          [run_verdicts EXCEPT ![run_id] =
              Verdict(DetectForRun(shared_log, run_id,
                                   run_scripts[run_id].expect_simulation))]
    /\ shared_log' =
          shared_log
          \o [i \in 1..Len(SummaryEvents(run_verdicts'[run_id].violation)) |->
                 Record(run_id, SummaryEvents(run_verdicts'[run_id].violation)[i])]
    /\ UNCHANGED run_scripts

NextRuns ==
    \/ (\E run_id \in RunIds : RunAppend(run_id))
       /\ UNCHANGED <<loopVars, gateVars, packVars, busVars, copyVars, estimateVars, dayVars>>
    \/ (\E run_id \in RunIds : RunCheck(run_id))
       /\ UNCHANGED <<loopVars, gateVars, packVars, busVars, copyVars, estimateVars, dayVars>>

SpecRuns == InitRuns /\ [][NextRuns]_vars

\* C23: with several runs appending to one log in any interleaving, the verdict
\* of a run's order check is the verdict of the check on that run's own events
\* alone: events of other runs neither cause nor mask a violation.
C23_VerdictOfOwnEvents ==
    \A run_id \in RunIds :
        run_verdicts[run_id].checked =>
            run_verdicts[run_id].violation
              = DetectEventOrderViolation(run_scripts[run_id].events,
                                          run_scripts[run_id].expect_simulation)

\* Two interleaved runs, both checked: one in order, although the whole log has
\* simulation events of the other run before its own evaluation; the other in
\* violation for its missing agent.alpha_generated, although the log holds one.
C23_Witness ==
    /\ run_verdicts["run-a"] = Verdict(FALSE)
    /\ run_verdicts["run-b"] = Verdict(TRUE)
    /\ ~run_scripts["run-a"].expect_simulation
    /\ run_scripts["run-b"].events[1] = "validation.started"
    /\ shared_log[1].run_id = "run-a"
    /\ shared_log[2].run_id = "run-b"
    /\ \E i \in 1..Len(shared_log) :
          shared_log[i] = Record("run-a", "evaluation.completed")
          /\ \E k \in 1..(i - 1) : shared_log[k].run_id = "run-b"

(***************************************************************************)
(* _evaluate_budget as a function of its arguments (budget.py)             *)
(***************************************************************************)
MaxPromptChars == 9        \* prompts of 0..MaxPromptChars characters

\* rough_token_estimate(text_or_chars): max(0, ceil(chars / 4.0))
RoughTokenEstimate(chars) == Max(0, (Max(0, chars) + 3) \div 4)

\* _novelty_kpi(pack, seen_combo_keys)[0] in units of 0.0001: the share of the
\* field::operator keys over the first 20 fields and operators not seen before
ComboKeys(p) ==
    {<<p.candidate_fields[i].id, p.candidate_operators[k].name>> :
        i \in 1..Min(20, Len(p.candidate_fields)),
        k \in 1..Min(20, Len(p.candidate_operators))}

NoveltyKpi(p, seen_combo_keys) ==
    IF ComboKeys(p) = {} THEN 0
    ELSE (2 * 10000 * Cardinality(ComboKeys(p) \ seen_combo_keys) + Cardinality(ComboKeys(p)))
            \div (2 * Cardinality(ComboKeys(p)))

\* coverage_kpi = float(len(set(pack.selected_subcategories)))
CoverageKpi(p) == Cardinality(Range(p.selected_subcategories))

\* _evaluate_budget(prompt, pack, budget, usage, seen_combo_keys,
\* max_output_tokens, fallback_count, explore_floor_targets) on a prompt of
\* prompt_chars characters
EvaluateBudgetOf(a) ==
    [evaluated |-> TRUE,
     evaluation |-> EvaluateBudget(PromptOf(a.pack, RoughTokenEstimate(a.prompt_chars)),
                                   a.pack, a.budget, a.usage, a.max_output_tokens, 0,
                                   a.explore_floor_targets),
     coverage_kpi |-> CoverageKpi(a.pack),
     novelty_kpi |-> NoveltyKpi(a.pack, a.seen_combo_keys)]

LaneRow(key, value, lane) == [k \in {key, "lane"} |-> IF k = "lane" THEN lane ELSE value]

EvalPack(subcategories, fields, operators) ==
    [selected_subcategories |-> subcategories, candidate_datasets |-> <<>>,
     candidate_fields |-> fields, candidate_operators |-> operators]

EvalPacks ==
    { EvalPack(<<"s1", "s2">>,
               <<LaneRow("id", "f1", "exploit"), LaneRow("id", "f2", "explore")>>,
               <<LaneRow("name", "rank", "exploit"), LaneRow("name", "ts_mean", "explore")>>),
      EvalPack(<<"s1">>,
               <<LaneRow("id", "f1", "exploit")>>,
               <<LaneRow("name", "rank", "exploit"), LaneRow("name", "ts_mean", "explore")>>),
      EvalPack(<<"s1">>,
               <<LaneRow("id", "f1", "exploit")>>,
               <<LaneRow("name", "rank", "exploit")>>) }

EvalBudgets ==
    [min_explore_candidates_per_batch : {1}, explore_ratio : {30},
     fallback_topk_steps : {<<85, 40>>},
     max_prompt_tokens : {1, 2}, max_completion_tokens : {0, 1, 2},
     max_tokens_per_batch : {3, 4}, max_tokens_per_day : {3, 4}]

EvalUsages == {[total_run_tokens |-> 1, total_day_tokens |-> 0],
               [total_run_tokens |-> 0, total_day_tokens |-> 2]}

InitEval ==
    /\ eval_in \in [prompt_chars : 0..MaxPromptChars,
                    pack : EvalPacks,
                    budget : EvalBudgets,
                    usage : EvalUsages,
                    seen_combo_keys : {{}, {<<"f1", "rank">>}},
                    max_output_tokens : 0..2,
                    explore_floor_targets : {<<0, 0>>, <<1, 0>>, <<1, 1>>}]
    /\ eval_out = NoEvaluation
    /\ token_estimate = [built |-> NoEstimate, synced |-> NoEstimate]
    /\ IdleLoop
    /\ IdleGate
    /\ IdlePack
    /\ IdleBus
    /\ IdleCopy
    /\ IdleRuns
    /\ IdleDay

Evaluate ==
    /\ eval_out = NoEvaluation
    /\ eval_out' = EvaluateBudgetOf(eval_in)
    /\ UNCHANGED <<eval_in, token_estimate>>

NextEval ==
    Evaluate /\ UNCHANGED <<loopVars, gateVars, packVars, busVars, copyVars, runsVars, dayVars>>

SpecEval == InitEval /\ [][NextEval]_vars

\* chars / 4 rounded up: the least t with 4 * t >= chars
QuarterRoundedUp(chars) == CHOOSE t \in 0..chars : 4 * t >= chars /\ 4 * (t - 1) < chars

FlagNames == {"request_prompt", "request_completion", "batch_total", "day_total",
              "explore_floor"}

\* The evaluation returned is the one the five flags define, for a completion
\* budget `completion`.
VerdictOfFlags(completion) ==
    /\ eval_out.evaluation.completion_tokens_budget = completion
    /\ DOMAIN eval_out.evaluation.exceeded = FlagNames
    /\ eval_out.evaluation.exceeded.request_prompt
          <=> QuarterRoundedUp(eval_in.prompt_chars) > eval_in.budget.max_prompt_tokens
    /\ eval_out.evaluation.exceeded.request_completion
          <=> completion > eval_in.budget.max_completion_tokens
    /\ eval_out.evaluation.exceeded.batch_total
          <=> eval_in.usage.total_run_tokens + QuarterRoundedUp(eval_in.prompt_chars)
                 + completion > eval_in.budget.max_tokens_per_batch
    /\ eval_out.evaluation.exceeded.day_total
          <=> eval_in.usage.total_day_tokens + QuarterRoundedUp(eval_in.prompt_chars)
                 + completion > eval_in.budget.max_tokens_per_day
    /\ eval_out.evaluation.exceeded.explore_floor
          <=> \/ ExploreCount(eval_in.pack.candidate_fields)
                    < eval_in.explore_floor_targets[1]
              \/ ExploreCount(eval_in.pack.candidate_operators)
                    < eval_in.explore_floor_targets[2]
    /\ eval_out.evaluation.passed
          <=> \A flag \in FlagNames : ~eval_out.evaluation.exceeded[flag]

\* C27 as stated: a budget evaluation passes iff none of its five flags is
\* set, the flags being computed from completion budget = min(requested max
\* output tokens, max_completion_tokens); novelty and coverage play no part.
C27_VerdictWithMinCompletion ==
    eval_out.evaluated =>
        VerdictOfFlags(Min(eval_in.max_output_tokens, eval_in.budget.max_completion_tokens))

\* C27 amended: a budget evaluation passes iff none of its five flags is set,
\* the flags being computed from completion budget = max(1, min(requested max
\* output tokens, max_completion_tokens)); novelty and coverage play no part.
C27_VerdictOfFiveFlags ==
    eval_out.evaluated =>
        VerdictOfFlags(Max(1, Min(eval_in.max_output_tokens,
                                  eval_in.budget.max_completion_tokens)))

\* An evaluation that fails on the day total alone, nothing of the pack's
\* combinations seen before (novelty 1.0) and two subcategories covered.
C27_Witness ==
    /\ eval_out.evaluated
    /\ ~eval_out.evaluation.passed
    /\ {flag \in FlagNames : eval_out.evaluation.exceeded[flag]} = {"day_total"}
    /\ eval_out.novelty_kpi = 10000
    /\ eval_out.coverage_kpi = 2

\* An evaluation for max_output_tokens = 0: the completion budget is 1 and the
\* batch total is exceeded by it.
CompletionBudgetRaisedToOne ==
    /\ eval_out.evaluated
    /\ eval_in.max_output_tokens = 0
    /\ eval_out.evaluation.completion_tokens_budget = 1
    /\ eval_out.evaluation.exceeded.batch_total
    /\ eval_in.usage.total_run_tokens + QuarterRoundedUp(eval_in.prompt_chars)
          <= eval_in.budget.max_tokens_per_batch

(***************************************************************************)
(* The token estimate stored in a pack (pack_builder.py, budget.py)        *)
(***************************************************************************)
\* len(json.dumps(payload)) of the payload of _sync_pack_contracts for an
\* empty pack; the payload of build_retrieval_pack is longer still
EmptyPayloadChars == 133
MaxPayloadExtra == 11      \* payloads up to EmptyPayloadChars + MaxPayloadExtra

PayloadChars == EmptyPayloadChars..(EmptyPayloadChars + MaxPayloadExtra)

\* _estimate_tokens(payload): rough_tokens = max(1, int(chars / 4))
EstimateTokens(chars) ==
    [input_chars |-> chars, input_tokens_rough |-> Max(1, chars \div 4)]

\* _sync_pack_contracts: pack.token_estimate = RetrievalTokenEstimate(
\*     input_chars=chars, input_tokens_rough=rough_token_estimate(chars))
SyncTokenEstimate(chars) ==
    [input_chars |-> chars, input_tokens_rough |-> RoughTokenEstimate(chars)]

InitEstimate ==
    /\ eval_in = <<>>
    /\ eval_out = NoEvaluation
    /\ token_estimate = [built |-> NoEstimate, synced |-> NoEstimate]
    /\ IdleLoop
    /\ IdleGate
    /\ IdlePack
    /\ IdleBus
    /\ IdleCopy
    /\ IdleRuns
    /\ IdleDay

\* build_retrieval_pack: token_estimate=_estimate_tokens(payload)
BuildEstimate(chars) ==
    /\ token_estimate.built = NoEstimate
    /\ token_estimate' = [token_estimate EXCEPT !.built = EstimateTokens(chars)]
    /\ UNCHANGED <<eval_in, eval_out>>

\* a shrink step of the budget enforcement re-syncs the pack it has cut
SyncEstimate(chars) ==
    /\ token_estimate.built # NoEstimate
    /\ token_estimate' = [token_estimate EXCEPT !.synced = SyncTokenEstimate(chars)]
    /\ UNCHANGED <<eval_in, eval_out>>

NextEstimate ==
    \/ \E chars \in PayloadChars :
          BuildEstimate(chars)
             /\ UNCHANGED <<loopVars, gateVars, packVars, busVars, copyVars, runsVars, dayVars>>
    \/ \E chars \in PayloadChars :
          SyncEstimate(chars)
             /\ UNCHANGED <<loopVars, gateVars, packVars, busVars, copyVars, runsVars, dayVars>>

SpecEstimate == InitEstimate /\ [][NextEstimate]_vars

RoundedUp(estimate) ==
    /\ 4 * estimate.input_tokens_rough >= estimate.input_chars
    /\ 4 * (estimate.input_tokens_rough - 1) < estimate.input_chars

\* C28: the token estimate stored in a pack equals the serialized character
\* length divided by 4 rounded up, both for a pack produced by
\* build_retrieval_pack and for a pack re-synced after a budget shrink step.
C28_EstimateRoundedUp ==
    /\ token_estimate.built # NoEstimate => RoundedUp(token_estimate.built)
    /\ token_estimate.synced # NoEstimate => RoundedUp(token_estimate.synced)

\* The re-synced estimate alone is rounded up.
SyncedEstimateRoundedUp ==
    token_estimate.synced # NoEstimate => RoundedUp(token_estimate.synced)

\* A built pack of 134 characters holding the estimate 33, where 134 / 4
\* rounded up is 34, re-synced at the same length to 34.
BuiltEstimateRoundedDown ==
    /\ token_estimate.built = [input_chars |-> 134, input_tokens_rough |-> 33]
    /\ token_estimate.synced = [input_chars |-> 134, input_tokens_rough |-> 34]

(***************************************************************************)
(* The retry rule and the simulation rule of the event-order check         *)
(***************************************************************************)
MaxRetryTail == 4          \* events after the head of a log with retries
MaxSimulationTail == 4     \* events after the head of a log with a simulation

\* A run log from logs read back from the store, before the check is applied.
LogRead(logs) ==
    /\ pc = "order"
    /\ events \in logs
    /\ simulate \in BOOLEAN
    /\ validation_passed \in BOOLEAN
    /\ event_order_violation = FALSE
    /\ max_repair_attempts = 0
    /\ stop_on_repeated_error = FALSE
    /\ expansion_policy = [enabled |-> FALSE, trigger |-> 0]
    /\ attempts = 0
    /\ signatures = <<>>
    /\ error_codes = <<>>
    /\ event_codes = <<>>
    /\ retrieval_expanded = FALSE
    /\ expand_calls = 0
    /\ runner_calls = 0
    /\ notes = [validation_passed |-> FALSE, validation_attempts |-> 0]
    /\ collab = [evaluator_bus |-> TRUE, enforce_validation_gate |-> FALSE]
    /\ IdleGate
    /\ IdlePack
    /\ IdleBus
    /\ IdleCopy
    /\ IdleRuns
    /\ IdleEstimate
    /\ IdleDay

RetryHeads == { <<"agent.alpha_generated", "validation.started", "validation.failed">>,
                <<"agent.alpha_generated", "validation.started">>,
                <<>> }

RetryEvents == {"validation.retry_started", "validation.retry_failed",
                "validation.retry_passed", "validation.failed", "evaluation.completed"}

RetryLogs == {head \o tail : head \in RetryHeads, tail \in SeqsUpTo(RetryEvents, MaxRetryTail)}

InitRetry == LogRead(RetryLogs)

SpecRetry == InitRetry /\ [][NextOrder]_vars

\* Some validation.retry_started has no validation.retry_failed or
\* validation.retry_passed after it that comes before the next
\* validation.retry_started.
RetryUnanswered(evs) ==
    \E i \in 1..Len(evs) :
        /\ evs[i] = "validation.retry_started"
        /\ \A k \in (i + 1)..Len(evs) :
              evs[k] \in {"validation.retry_failed", "validation.retry_passed"} =>
                  \E j \in (i + 1)..(k - 1) : evs[j] = "validation.retry_started"

IsNoRetryStart(event_type) == event_type # "validation.retry_started"

\* C29: the check reports a violation whenever some validation.retry_started
\* is not followed, before the next validation.retry_started or the end of
\* the log, by a validation.retry_failed or validation.retry_passed, and
\* reports none on this rule when every retry_started has such a follower:
\* its verdict is then the one of the log without the retry_started events.
C29_RetryNeedsOutcome ==
    pc = "checked" =>
        /\ RetryUnanswered(events) => event_order_violation
        /\ ~RetryUnanswered(events) =>
              /\ ~RetryOrderViolation(events)
              /\ event_order_violation
                    = DetectEventOrderViolation(SelectSeq(events, IsNoRetryStart),
                                                simulate /\ validation_passed)

\* A log reported for its first retry alone, the second retry being answered;
\* it passes every other rule.
C29_Witness ==
    /\ pc = "checked"
    /\ events = <<"agent.alpha_generated", "validation.started", "validation.failed",
                  "validation.retry_started", "validation.retry_started",
                  "validation.retry_passed", "evaluation.completed">>
    /\ event_order_violation
    /\ ~DetectEventOrderViolation(SelectSeq(events, IsNoRetryStart), FALSE)

\* A log with an answered retry that the check lets pass.
RetryAnsweredPasses ==
    /\ pc = "checked"
    /\ \E i \in 1..Len(events) : events[i] = "validation.retry_started"
    /\ ~event_order_violation

SimulationHeads == { <<"agent.alpha_generated", "validation.started", "validation.passed">>,
                     <<"agent.alpha_generated", "validation.started", "validation.failed">> }

SimulationEvents == {"simulation.enqueued", "simulation.started", "simulation.completed",
                     "simulation_skipped_duplicate", "evaluation.completed"}

SimulationLogs ==
    {head \o tail : head \in SimulationHeads,
                    tail \in SeqsUpTo(SimulationEvents, MaxSimulationTail)}

InitSimulation == LogRead(SimulationLogs)

SpecSimulation == InitSimulation /\ [][NextOrder]_vars

SimulationEventTypes == {"simulation.enqueued", "simulation.started", "simulation.completed",
                         "simulation_completed", "simulation_skipped_duplicate"}

\* The check ran on a log of a passed validation with simulation requested.
PassedAndSimulationRequested ==
    /\ pc = "checked"
    /\ simulate /\ validation_passed
    /\ \E i \in 1..Len(events) :
          events[i] \in {"validation.passed", "validation.retry_passed"}

\* The only simulation event of the log is the duplicate-skip marker.
DuplicateSkipOnly(evs) ==
    /\ \E i \in 1..Len(evs) : evs[i] = "simulation_skipped_duplicate"
    /\ \A i \in 1..Len(evs) :
          evs[i] \in SimulationEventTypes => evs[i] = "simulation_skipped_duplicate"

\* enqueued, started and completed all occur, in that order.
AllThreeInOrder(evs) ==
    \E i, j, k \in 1..Len(evs) :
        /\ i < j /\ j < k
        /\ evs[i] = "simulation.enqueued"
        /\ evs[j] = "simulation.started"
        /\ evs[k] \in {"simulation.completed", "simulation_completed"}

\* The first enqueued comes before the first started, and the first
\* completed, if there is one, after the first started.
EnqueuedStartedInOrder(evs) ==
    \E i, j \in 1..Len(evs) :
        /\ i < j
        /\ evs[i] = "simulation.enqueued"
        /\ evs[j] = "simulation.started"
        /\ \A h \in 1..j : evs[h] = "simulation.started" => h = j
        /\ \A h \in 1..j : evs[h] \notin {"simulation.completed", "simulation_completed"}

\* C30 as stated: when validation passed and simulation was requested, the
\* check reports a violation unless simulation.enqueued, simulation.started
\* and simulation.completed all occur, in that order; the only exemption is a
\* log whose sole simulation event is the duplicate-skip marker.
C30_SimulationNeedsAllThree ==
    (PassedAndSimulationRequested
        /\ ~AllThreeInOrder(events) /\ ~DuplicateSkipOnly(events))
    => event_order_violation

\* C30 amended: when validation passed and simulation was requested, the check
\* reports a violation unless simulation.enqueued and simulation.started both
\* occur, the first enqueued before the first started, and the first
\* simulation.completed, if any, after the first started; the only exemption
\* is a log whose sole simulation event is the duplicate-skip marker.
C30_SimulationNeedsEnqueuedStarted ==
    (PassedAndSimulationRequested
        /\ ~EnqueuedStartedInOrder(events) /\ ~DuplicateSkipOnly(events))
    => event_order_violation

\* A passed, simulated run whose simulation started before it was enqueued
\* was reported, on a log that breaks no other rule.
C30_Witness ==
    /\ PassedAndSimulationRequested
    /\ events = <<"agent.alpha_generated", "validation.started", "validation.passed",
                  "simulation.started", "simulation.enqueued", "simulation.completed",
                  "evaluation.completed">>
    /\ event_order_violation

\* A passed, simulated run without simulation.completed that the check lets pass.
CompletedMissingPasses ==
    /\ PassedAndSimulationRequested
    /\ events = <<"agent.alpha_generated", "validation.started", "validation.passed",
                  "simulation.enqueued", "simulation.started", "evaluation.completed">>
    /\ ~event_order_violation

(***************************************************************************)
(* The evaluation rule of the event-order check                            *)
(***************************************************************************)
ValidationOutcomes == {"validation.passed", "validation.failed",
                       "validation.retry_passed", "validation.retry_failed"}

\* Last position of s holding an element of S, 0 when none.
LastPos(s, S) ==
    IF \E i \in 1..Len(s) : s[i] \in S
    THEN CHOOSE i \in 1..Len(s) : s[i] \in S /\ \A j \in (i + 1)..Len(s) : s[j] \notin S
    ELSE 0

\* The event evaluation.completed summarizes: the simulation completion, else
\* the duplicate-skip marker, else the last validation outcome of the run.
SummarizedIndex(evs) ==
    IF FirstPos(evs, {"simulation.completed", "simulation_completed"}, 1) # 0
    THEN FirstPos(evs, {"simulation.completed", "simulation_completed"}, 1)
    ELSE IF FirstPos(evs, {"simulation_skipped_duplicate"}, 1) # 0
    THEN FirstPos(evs, {"simulation_skipped_duplicate"}, 1)
    ELSE LastPos(evs, ValidationOutcomes)

\* C31: the check reports a violation when the run log has no
\* evaluation.completed event, or when evaluation.completed occurs before the
\* event it summarizes: the simulation completion, else the duplicate-skip
\* marker, else the terminal validation event of the run (the last
\* passed/failed or retry_passed/retry_failed outcome).
C31_EvaluationAfterSummarized ==
    (pc = "checked"
        /\ (\/ FirstPos(events, {"evaluation.completed"}, 1) = 0
            \/ FirstPos(events, {"evaluation.completed"}, 1) < SummarizedIndex(events)))
    => event_order_violation

\* A log without evaluation.completed is always reported.
EvaluationMissingReported ==
    (pc = "checked" /\ FirstPos(events, {"evaluation.completed"}, 1) = 0)
    => event_order_violation

\* A log whose evaluation.completed comes before the outcome of the retry that
\* ends the validation, let pass by the check.
EvaluationBeforeRetryOutcomePasses ==
    /\ pc = "checked"
    /\ events = <<"agent.alpha_generated", "validation.started", "validation.failed",
                  "evaluation.completed", "validation.retry_started",
                  "validation.retry_passed">>
    /\ ~event_order_violation

(***************************************************************************)
(* Identifiers, operator names and VECTOR fields in the validator          *)
(***************************************************************************)
\* Expressions with operator names outside a call, VECTOR fields below
\* nested calls and calls of operators the catalog lacks.
IdentExpressions ==
    { <<"rank">>, <<"f1">>, <<"v1">>,
      Call1("rank", "f1"), Call1("rank", "rank"), Call1("rank", "zscore"),
      Call2("ts_delta", "rank", "5"), Call2("ts_delta", "f1", "5"),
      Call2("rank", "f2", "foo"),
      Call1("rank", "v1"), Call1("vec_sum", "v1"), Call2("ts_delta", "v1", "5"),
      Nested("rank", Call1("vec_sum", "v1")),
      Nested("vec_sum", Call1("rank", "v1")),
      Nested("zscore", Call1("vec_sum", "v1")),
      Call1("foo", "f1"), Call1("foo", "f2"), Call1("foo", "v1"), Call1("foo", "x9"),
      Nested("foo", Call1("foo", "f1")),
      Nested("foo", Call1("zscore", "f2")),
      Nested("zscore", Call1("rank", "g1")),
      Nested("rank", Call1("foo", "f1")),
      Call1("ts_mean", "g1"), Call1("ts_mean", "f1"),
      Call2("group_mean", "f1", "g1"),
      <<"foo", "(", ")">>, <<"foo", "(", "f1">> }

InitIdents ==
    /\ validator \in GateValidators
    /\ gpack \in GatePacks
    /\ expr \in IdentExpressions
    /\ alpha_type \in AlphaTypes
    /\ gphase = "input"
    /\ gissues = <<>>
    /\ gout = <<>>
    /\ IdleLoop
    /\ IdlePack
    /\ IdleBus
    /\ IdleCopy
    /\ IdleRuns
    /\ IdleEstimate
    /\ IdleDay

SpecIdents == InitIdents /\ [][NextGate]_vars

\* gissues holds the issues of a validation of expr.
Validated == gphase \in {"validated", "revalidated"}

IssuesOf(code) == {gissues[i].message : i \in {k \in 1..Len(gissues) : gissues[k].code = code}}

\* C32: the validator reports an unknown data field only for identifiers that
\* are neither an operator name, nor numeric, nor a catalog field: a name of
\* the known operator set is never reported as an unknown data field, whether
\* or not it was parsed as a call.
C32_OperatorNeverUnknownField ==
    Validated =>
        \A m \in IssuesOf("unknown_data_field") :
            /\ m.field \notin ValidatorOperatorNames(validator)
            /\ m.field \notin NumberLexemes
            /\ m.field \notin ValidatorFieldIds(validator)

\* What is reported as an unknown data field is never a catalog field, a
\* number or the name of a call of the expression.
UnknownFieldIsNoCallName ==
    Validated =>
        \A m \in IssuesOf("unknown_data_field") :
            /\ m.field \notin Range(CallNames(ExtractCalls(expr)))
            /\ m.field \notin NumberLexemes
            /\ m.field \notin ValidatorFieldIds(validator)

\* rank, an operator of the catalog, passed as an argument of ts_delta and
\* reported as an unknown data field.
OperatorReportedAsUnknownField ==
    /\ gphase = "validated"
    /\ expr = Call2("ts_delta", "rank", "5")
    /\ "rank" \in ValidatorOperatorNames(validator)
    /\ \E m \in IssuesOf("unknown_data_field") : m.field = "rank"

\* f is an argument of the call: one of its arguments is the identifier f.
IsArgumentOf(f, call) == \E k \in 1..Len(call.args) : Strip(call.args[k]) = <<f>>

VectorFields(v) == {v.fields[i].id : i \in {k \in 1..Len(v.fields) : v.fields[k].type = "VECTOR"}}

\* C33: a VECTOR-typed field yields a vector_used_in_non_vec error exactly
\* when it is passed as an argument of an operator whose name lacks the vec_
\* prefix; a VECTOR field that is an argument only of a vec_ operator yields
\* no such error, also when that vec_ call is itself an argument of a
\* non-vec_ operator.
C33_VectorErrorOnlyForDirectArgument ==
    (Validated /\ Strip(expr) # <<>>) =>
        \A f \in VectorFields(validator) :
            (\E m \in IssuesOf("vector_used_in_non_vec") : m.field = f)
            <=> \E i \in 1..Len(ExtractCalls(expr)) :
                   /\ ~StartsWithVec(ExtractCalls(expr)[i].name)
                   /\ IsArgumentOf(f, ExtractCalls(expr)[i])

\* A VECTOR field passed to an operator without the vec_ prefix is reported.
VectorArgumentReported ==
    (Validated /\ Strip(expr) # <<>>) =>
        \A f \in VectorFields(validator) :
            (\E i \in 1..Len(ExtractCalls(expr)) :
                /\ ~StartsWithVec(ExtractCalls(expr)[i].name)
                /\ IsArgumentOf(f, ExtractCalls(expr)[i]))
            => \E m \in IssuesOf("vector_used_in_non_vec") : m.field = f

\* rank(vec_sum(v1)): v1 is an argument of vec_sum only and is reported as
\* used in rank.
VectorBelowVecCallReported ==
    /\ gphase = "validated"
    /\ expr = Nested("rank", Call1("vec_sum", "v1"))
    /\ "v1" \in VectorFields(validator)
    /\ \E m \in IssuesOf("vector_used_in_non_vec") : m.field = "v1" /\ m.op = "rank"

\* The names of the calls of the expression that the catalog lacks.
UnknownCallNames(v, expression) ==
    {name \in Range(CallNames(ExtractCalls(expression))) : ~OperatorKnown(v, name)}

\* The only defect of the expression is that it calls operators missing from
\* the catalog: its characters and parentheses are in order, the calls of
\* known operators break no rule, every identifier that heads no call is a
\* catalog field and no type rule is broken.
OnlyUnknownOperators(v, expression, atype) ==
    /\ Strip(expression) # <<>>
    /\ AllowedChars(expression)
    /\ BalancedParentheses(expression)
    /\ UnknownCallNames(v, expression) # {}
    /\ \A i \in 1..Len(ExtractCalls(expression)) :
          OperatorKnown(v, ExtractCalls(expression)[i].name)
             => CallErrors(v, ExtractCalls(expression)[i], atype) = <<>>
    /\ \A t \in Identifiers(expression) \ Range(CallNames(ExtractCalls(expression))) :
          FieldKnown(v, t)
    /\ TypeChecks(v, ExtractCalls(expression)) = <<>>

TwoUnknownOperatorsReported ==
    /\ gphase = "validated"
    /\ expr = Nested("foo", Call1("zscore", "f2"))
    /\ OnlyUnknownOperators(validator, expr, alpha_type)
    /\ IssueCodes(gissues) = <<"unknown_operator", "unknown_operator">>

(***************************************************************************)
(* The attempts recorded by the loop                                       *)
(***************************************************************************)
\* The validations the gate performed in the run: one per failure recorded,
\* and the one that passed.
ValidationsPerformed == Len(event_codes) + (IF validation_passed THEN 1 ELSE 0)

\* The loop has ended and recorded its notes.
NotesRecorded == pc \in {"order", "done"}

AbortedOnRepeat ==
    \E i \in 1..Len(events) : events[i] = "validation.retry_aborted_repeated_error"

\* C35: on every terminal path of the loop (pass, attempts exhausted,
\* repeated-error abort) the validation_attempts recorded on the candidate and
\* in the result equals the number of validations the gate actually performed
\* in the run, and validation_passed equals the outcome of the last of them.
C35_AttemptsAreValidations ==
    NotesRecorded =>
        /\ notes.validation_attempts = ValidationsPerformed
        /\ notes.validation_passed = (error_codes = <<>>)

\* On the paths that end by a pass or by exhaustion the count is exact, and
\* the recorded verdict is the last outcome on every path.
AttemptsExactUnlessAborted ==
    NotesRecorded =>
        /\ ~AbortedOnRepeat => notes.validation_attempts = ValidationsPerformed
        /\ notes.validation_passed = (error_codes = <<>>)

\* A run aborted on its first failure: one validation, two attempts recorded.
AbortCountsUnmadeRetry ==
    /\ NotesRecorded
    /\ AbortedOnRepeat
    /\ ValidationsPerformed = 1
    /\ notes.validation_attempts = 2

(***************************************************************************)
(* The events of a run against the event-order check                       *)
(***************************************************************************)
\* The run started on a log holding agent.alpha_generated, its evaluator
\* publishes evaluation.completed, and the check has been applied.
OrderlyRunChecked ==
    /\ pc = "done"
    /\ events # <<>> /\ events[1] = "agent.alpha_generated"
    /\ collab.evaluator_bus

HasEvent(event_type) == \E i \in 1..Len(events) : events[i] = event_type

\* C36: for a run whose log already holds agent.alpha_generated before the
\* loop starts, with every event persisted in emission order and an evaluator
\* that publishes evaluation.completed, the events emitted by run() and the
\* simulation runner on every path (pass at once, pass after repairs,
\* exhaustion, abort, duplicate skip, simulate=false) never make the check
\* report an event_order_violation.
C36_OrderlyRunNeverReported ==
    OrderlyRunChecked => ~event_order_violation

\* A run that passed after a repair and was simulated to completion.
C36_Witness ==
    /\ OrderlyRunChecked
    /\ HasEvent("validation.retry_passed")
    /\ HasEvent("simulation.completed")
    /\ ~event_order_violation

\* The other paths of the claim, each checked without a violation.
OrderlyAbortChecked ==
    OrderlyRunChecked /\ AbortedOnRepeat /\ ~event_order_violation

OrderlyDuplicateChecked ==
    OrderlyRunChecked /\ HasEvent("simulation_skipped_duplicate") /\ ~event_order_violation

OrderlyExhaustionChecked ==
    /\ OrderlyRunChecked
    /\ ~validation_passed /\ ~AbortedOnRepeat
    /\ HasEvent("validation.retry_failed")
    /\ ~event_order_violation

OrderlySkipChecked ==
    OrderlyRunChecked /\ HasEvent("simulation.skipped_by_option") /\ ~event_order_violation

(***************************************************************************)
(* The floor of one field and one operator across the shrink phases        *)
(***************************************************************************)
\* A catalog whose best field belongs to the dataset of the second
\* subcategory.
FloorCatalogs ==
    { [subcategory_score |-> [x \in {"s1", "s2"} |-> IF x = "s1" THEN 3 ELSE 2],
       datasets |-> << Dataset("d1", "s1", 5, 1, 2), Dataset("d3", "s2", 3, 2, 3) >>,
       fields |-> << DataField("f1", "d1", 2, 3, 1), DataField("f4", "d3", 9, 3, 5),
                     DataField("f5", "d3", 8, 3, 3) >>,
       operators |-> << Operator("rank", 9, "cross"), Operator("ts_mean", 7, "time"),
                        Operator("zscore", 3, "cross") >> ] }

InitFloor ==
    /\ IdleLoop
    /\ IdleGate
    /\ IdleBus
    /\ IdleCopy
    /\ IdleRuns
    /\ IdleEstimate
    /\ IdleDay
    /\ catalog \in Catalogs \cup FloorCatalogs
    /\ rbudget \in {b \in RetrievalBudgets :
                       /\ b.exploit.subcategories = 2
                       /\ b.exploit.datasets = 2
                       /\ b.explore.datasets = 1
                       /\ b.explore.fields = 1
                       /\ b.explore.operators = 1}
    /\ lbudget \in LLMBudgets
    /\ pack = NoPack
    /\ last_step = [kind |-> "none", phase |-> 0, factor |-> 0, allowed |-> FALSE,
                    signature_before |-> <<>>]
    /\ pack_expansions = 0
    /\ enforcement = NoEnforcement
    /\ alpha_maker = NoPolicy

SpecFloor == InitFloor /\ [][NextPack]_vars

\* C37: after any sequence of shrink steps on a pack that starts with at
\* least one candidate field and one candidate operator, the pack still holds
\* at least one candidate field and one candidate operator: the floor of one
\* holds across all three phases, including the subcategory phase that drops
\* datasets and the fields belonging to them.
C37_ShrinkKeepsOneFieldOneOperator ==
    [][(InEnforcement /\ last_step'.kind = "shrink"
           /\ pack.candidate_fields # <<>> /\ pack.candidate_operators # <<>>)
       => (pack'.candidate_fields # <<>> /\ pack'.candidate_operators # <<>>)]_vars

\* The field and operator phases alone never empty a list.
FieldAndOperatorPhasesKeepOne ==
    [][(InEnforcement /\ last_step'.kind = "shrink"
           /\ Phases[last_step'.phase] \in {"fields", "operators"}
           /\ pack.candidate_fields # <<>> /\ pack.candidate_operators # <<>>)
       => (pack'.candidate_fields # <<>> /\ pack'.candidate_operators # <<>>)]_vars

\* A subcategory step has left a pack without candidate fields.
FieldsLostBySubcategoryStep ==
    /\ InEnforcement
    /\ last_step.kind = "shrink"
    /\ Phases[last_step.phase] = "subcategories"
    /\ pack.candidate_fields = <<>>
    /\ pack.candidate_datasets # <<>>
    /\ pack.candidate_operators # <<>>

(***************************************************************************)
(* The validation that follows a repair                                    *)
(***************************************************************************)
\* The candidate is REGULAR and the pack holds a field the validator knows.
RegularWithKnownPackField ==
    /\ alpha_type = "REGULAR"
    /\ PackFieldIds(gpack) \cap ValidatorFieldIds(validator) # {}

\* On the gate alone: the validation of a repaired REGULAR candidate reports
\* no issue.
RevalidationPasses ==
    (gphase = "revalidated" /\ RegularWithKnownPackField) => gissues = <<>>

\* The loop of run() on a candidate of the gate: each pass validates the
\* working candidate, and a pass that goes on to a retry repairs it with the
\* issues of that validation.
InitRepairLoop ==
    /\ pc = "start"
    /\ max_repair_attempts \in 0..MaxRepairBound
    /\ stop_on_repeated_error \in BOOLEAN
    /\ simulate = FALSE
    /\ expansion_policy \in [enabled : BOOLEAN, trigger : 0..MaxTrigger]
    /\ attempts = 0
    /\ signatures = <<>>
    /\ error_codes = <<>>
    /\ event_codes = <<>>
    /\ retrieval_expanded = FALSE
    /\ validation_passed = FALSE
    /\ events = <<"agent.alpha_generated">>
    /\ expand_calls = 0
    /\ runner_calls = 0
    /\ notes = [validation_passed |-> FALSE, validation_attempts |-> 0]
    /\ collab = [evaluator_bus |-> TRUE, enforce_validation_gate |-> TRUE]
    /\ event_order_violation = FALSE
    /\ validator \in GateValidators
    /\ gpack \in GatePacks
    /\ expr \in GateExpressions
    /\ alpha_type = "REGULAR"
    /\ gphase = "input"
    /\ gissues = <<>>
    /\ gout = <<>>
    /\ IdlePack
    /\ IdleBus
    /\ IdleCopy
    /\ IdleRuns
    /\ IdleEstimate
    /\ IdleDay

\* run(): one pass of the while loop on the working candidate: lines 114-117
\* validate it, lines 204-222 repair it when the pass goes on to a retry.
ValidateAndRepair(issues, rebuild_ok) ==
    /\ LoopIterate(IssueCodes(issues), rebuild_ok)
    /\ gissues' = issues
    /\ gphase' = IF attempts = 0 THEN "validated" ELSE "revalidated"
    /\ expr' = IF pc' = "loop" THEN RepairExpression(validator, gpack, expr, issues) ELSE expr
    /\ UNCHANGED <<validator, gpack, alpha_type, gout>>

NextRepairLoop ==
    \/ LoopStart /\ UNCHANGED <<gateVars, packVars, busVars, copyVars, runsVars, estimateVars, dayVars>>
    \/ (\E rebuild_ok \in BOOLEAN :
           ValidateAndRepair(ValidateCandidate(validator, expr, alpha_type).issues, rebuild_ok))
       /\ UNCHANGED <<packVars, busVars, copyVars, runsVars, estimateVars, dayVars>>
    \/ LoopPost("completed")
       /\ UNCHANGED <<gateVars, packVars, busVars, copyVars, runsVars, estimateVars, dayVars>>
    \/ LoopSummary /\ UNCHANGED <<gateVars, packVars, busVars, copyVars, runsVars, estimateVars, dayVars>>

SpecRepairLoop == InitRepairLoop /\ [][NextRepairLoop]_vars

LoopEnded == pc \in {"post", "order", "done"}

\* C39 as stated: for a candidate of type REGULAR and a pack with at least one
\* field known to the validator, the validation that immediately follows any
\* repair passes, so the loop ends as passed after at most one repair and
\* neither retrieval expansion (threshold 2 or more) nor the repeated-error
\* abort is reachable.
C39_LoopEndsPassedAfterOneRepair ==
    RegularWithKnownPackField =>
        /\ gphase = "revalidated" => gissues = <<>>
        /\ LoopEnded => (validation_passed /\ attempts <= 1)
        /\ ExpansionThreshold(expansion_policy) >= 2 => ~retrieval_expanded
        /\ ~AbortedOnRepeat

\* C39 amended: for a candidate of type REGULAR and a pack with at least one
\* field known to the validator, the validation that immediately follows any
\* repair passes, so a loop that repairs ends as passed after exactly one
\* repair, and with a threshold of 2 or more neither retrieval expansion nor
\* the repeated-error abort is reachable.
C39_RepairedCandidatePasses ==
    RegularWithKnownPackField =>
        /\ gphase = "revalidated" => gissues = <<>>
        /\ attempts <= 1
        /\ (LoopEnded /\ HasEvent("validation.retry_started"))
              => (validation_passed /\ attempts = 1)
        /\ ExpansionThreshold(expansion_policy) >= 2
              => (~retrieval_expanded /\ expand_calls = 0 /\ ~AbortedOnRepeat)

\* A loop with room for three repairs whose candidate failed, was repaired
\* once and passed.
C39_Witness ==
    /\ RegularWithKnownPackField
    /\ pc = "done"
    /\ max_repair_attempts = MaxRepairBound
    /\ HasEvent("validation.retry_started")
    /\ gphase = "revalidated"
    /\ validation_passed
    /\ attempts = 1

\* With threshold 1 the first failure aborts the loop before any repair.
AbortedBeforeRepair ==
    /\ RegularWithKnownPackField
    /\ LoopEnded
    /\ AbortedOnRepeat
    /\ ~HasEvent("validation.retry_started")
    /\ ~validation_passed

\* Without repair attempts the loop ends failed on the first validation.
FailedWithoutRepair ==
    /\ RegularWithKnownPackField
    /\ LoopEnded
    /\ max_repair_attempts = 0
    /\ ~validation_passed

(***************************************************************************)
(* run_alpha_maker of several runs on one event log (llm_orchestrator.py)  *)
(***************************************************************************)
UtcDay == "2024-01-02"
EarlierUtcDay == "2024-01-01"

\* A row of the event_log table: the envelope of EventBus.publish with the
\* token count its payload carries (total_tokens of llm.usage_point, the
\* projected day tokens less the day usage for budget.check_passed).
Row(run_id, event_type, created_at, tokens) ==
    [run_id |-> run_id, event_type |-> event_type, created_at |-> created_at,
     tokens |-> tokens]

RECURSIVE TokensOf(_)
TokensOf(rows) ==
    IF rows = <<>> THEN 0 ELSE Head(rows).tokens + TokensOf(Tail(rows))

\* aggregate_usage_from_events(events, run_id): the llm.usage_point tokens of
\* the run and of the day
AggregateUsageFromEvents(rows, run_id, day) ==
    [total_run_tokens |->
        TokensOf(SelectSeq(rows, LAMBDA r : r.event_type = "llm.usage_point"
                                             /\ r.run_id = run_id)),
     total_day_tokens |->
        TokensOf(SelectSeq(rows, LAMBDA r : r.event_type = "llm.usage_point"
                                             /\ r.created_at = day))]

\* The prompt builder's answer for a pack: the rough token estimate of the
\* prompt and whether the pack keeps the explore floor.
BuiltPrompts == { [tokens |-> 2, explore_floor |-> TRUE],
                  [tokens |-> 3, explore_floor |-> TRUE],
                  [tokens |-> 3, explore_floor |-> FALSE] }

\* The prompts of the pack as given and of the packs the fallback steps shrink
\* it to, in the order enforce_alpha_prompt_budget evaluates them.
PromptSeries == { <<a>> : a \in BuiltPrompts } \cup { <<a, b>> : a, b \in BuiltPrompts }

CompletionBudget(lb, max_output_tokens) ==
    Max(1, Min(max_output_tokens, lb.max_completion_tokens))

PromptPasses(prompt, lb, usage) ==
    ~AnyExceeded(ExceededFlags(prompt.tokens, CompletionBudget(lb, OutputTokens.max_output_tokens),
                               lb, usage, prompt.explore_floor))

\* enforce_alpha_prompt_budget: the evaluation of the pack as given, then of
\* each shrunk pack, up to the first that passes; blocked when none does.
EnforceOn(series, lb, usage) ==
    LET passing == {k \in 1..Len(series) : PromptPasses(series[k], lb, usage)}
        last == IF passing = {} THEN Len(series)
                ELSE CHOOSE k \in passing : \A j \in passing : k <= j
    IN [allowed |-> passing # {},
        fallback_steps |-> SubSeq(series, 2, last),
        prompt_tokens |-> series[last].tokens,
        completion_budget |-> CompletionBudget(lb, OutputTokens.max_output_tokens),
        explore_floor_preserved |-> series[last].explore_floor,
        usage |-> usage]

\* _apply_alpha_budget_policy: the event types published for a result, with the
\* blocked pair in the reverse order.
PolicyEventTypesBlockedFirst(result) ==
    FallbackEvents(result.fallback_steps)
    \o (IF result.allowed
        THEN PassedEvents(result)
        ELSE <<"budget.blocked", "budget.check_failed">>)

\* _apply_alpha_budget_policy: the event types published for a result
PolicyEventTypes(result) ==
    FallbackEvents(result.fallback_steps)
    \o (IF result.allowed
        THEN PassedEvents(result)
        ELSE <<"budget.check_failed", "budget.blocked">>)

PolicyRows(run_id, result) ==
    [k \in 1..Len(PolicyEventTypes(result)) |->
        Row(run_id, PolicyEventTypes(result)[k], UtcDay,
            IF PolicyEventTypes(result)[k] = "budget.check_passed"
            THEN result.prompt_tokens + result.completion_budget ELSE 0)]

DayBudgets ==
    [min_explore_candidates_per_batch : {1}, explore_ratio : {30},
     fallback_topk_steps : {<<85, 40>>},
     max_prompt_tokens : {3}, max_completion_tokens : {1},
     max_tokens_per_batch : {4}, max_tokens_per_day : {4, 6}]

\* The log before the calls: empty, or holding the usage point of a call made
\* the day before or earlier the same day.
EarlierLogs ==
    { <<>>,
      << Row("run-a", "llm.usage_point", EarlierUtcDay, 3) >>,
      << Row("run-b", "llm.usage_point", UtcDay, 1) >> }

NoResult == [allowed |-> FALSE, fallback_steps |-> <<>>, prompt_tokens |-> 0,
             completion_budget |-> 0, explore_floor_preserved |-> FALSE,
             usage |-> [total_run_tokens |-> 0, total_day_tokens |-> 0]]

InitDay ==
    /\ day_log \in EarlierLogs
    /\ makers = [r \in RunIds |-> [pc |-> "idle", result |-> NoResult,
                                   generator_calls |-> 0, first_row |-> 0]]
    /\ day_budget \in DayBudgets
    /\ IdleLoop
    /\ IdleGate
    /\ IdlePack
    /\ IdleBus
    /\ IdleCopy
    /\ IdleRuns
    /\ IdleEstimate

\* run_alpha_maker lines 205-215: agent.alpha_started
MakerStart(r) ==
    /\ makers[r].pc = "idle"
    /\ day_log' = Append(day_log, Row(r, "agent.alpha_started", UtcDay, 0))
    /\ makers' = [makers EXCEPT ![r].pc = "enforce", ![r].first_row = Len(day_log) + 1]
    /\ UNCHANGED day_budget

\* _apply_alpha_budget_policy lines 477-494: the usage read from the log and
\* the enforcement on it
MakerEnforce(r, series) ==
    /\ makers[r].pc = "enforce"
    /\ makers' = [makers EXCEPT
          ![r].pc = "publish",
          ![r].result = EnforceOn(series, day_budget,
                           AggregateUsageFromEvents(ListEventRecords(day_log), r, UtcDay))]
    /\ UNCHANGED <<day_log, day_budget>>

\* _apply_alpha_budget_policy lines 496-584: the events of the result, then
\* the return or BudgetBlockedError
MakerPublish(r) ==
    /\ makers[r].pc = "publish"
    /\ day_log' = day_log \o PolicyRows(r, makers[r].result)
    /\ makers' = [makers EXCEPT
          ![r].pc = IF PolicyRaises(makers[r].result) THEN "blocked" ELSE "generate"]
    /\ UNCHANGED day_budget

\* run_alpha_maker lines 229-230: _generate_alpha, which returns the text of
\* the model or raises
MakerGenerate(r, answered) ==
    /\ makers[r].pc = "generate"
    /\ makers' = [makers EXCEPT
          ![r].pc = IF answered THEN "parse" ELSE "raised",
          ![r].generator_calls = @ + 1]
    /\ UNCHANGED <<day_log, day_budget>>

\* _parse_alpha_with_repair: the text parses, parses after one regeneration,
\* or the failure is raised
MakerParse(r, outcome) ==
    /\ makers[r].pc = "parse"
    /\ outcome \in {"parsed", "regenerated", "failed"}
    /\ day_log' = day_log \o
          (IF outcome = "parsed" THEN <<>>
           ELSE << Row(r, "agent.alpha_parse_failed", UtcDay, 0),
                   Row(r, "agent.alpha_repair_attempted", UtcDay, 0) >>)
    /\ makers' = [makers EXCEPT
          ![r].pc = IF outcome = "failed" THEN "raised" ELSE "emit",
          ![r].generator_calls = IF outcome = "regenerated" THEN @ + 1 ELSE @]
    /\ UNCHANGED day_budget

\* run_alpha_maker lines 244-266: agent.alpha_generated and the usage point
\* of the first generation
MakerFinish(r, completion_tokens) ==
    /\ makers[r].pc = "emit"
    /\ day_log' = day_log \o
          << Row(r, "agent.alpha_generated", UtcDay, 0),
             Row(r, "llm.usage_point", UtcDay,
                 Max(0, makers[r].result.prompt_tokens + completion_tokens)) >>
    /\ makers' = [makers EXCEPT ![r].pc = "done"]
    /\ UNCHANGED day_budget

NextDay ==
    \/ (\E r \in RunIds : MakerStart(r))
       /\ UNCHANGED <<loopVars, gateVars, packVars, busVars, copyVars, runsVars, estimateVars>>
    \/ (\E r \in RunIds : \E series \in PromptSeries : MakerEnforce(r, series))
       /\ UNCHANGED <<loopVars, gateVars, packVars, busVars, copyVars, runsVars, estimateVars>>
    \/ (\E r \in RunIds : MakerPublish(r))
       /\ UNCHANGED <<loopVars, gateVars, packVars, busVars, copyVars, runsVars, estimateVars>>
    \/ (\E r \in RunIds : \E answered \in BOOLEAN : MakerGenerate(r, answered))
       /\ UNCHANGED <<loopVars, gateVars, packVars, busVars, copyVars, runsVars, estimateVars>>
    \/ (\E r \in RunIds : \E outcome \in {"parsed", "regenerated", "failed"} :
           MakerParse(r, outcome))
       /\ UNCHANGED <<loopVars, gateVars, packVars, busVars, copyVars, runsVars, estimateVars>>
    \/ (\E r \in RunIds : \E completion_tokens \in 0..1 : MakerFinish(r, completion_tokens))
       /\ UNCHANGED <<loopVars, gateVars, packVars, busVars, copyVars, runsVars, estimateVars>>

SpecDay == InitDay /\ [][NextDay]_vars

\* The rows a run appended in its call, in order.
RowsOfCall(r) ==
    IF makers[r].first_row = 0 THEN <<>>
    ELSE SelectSeq(SubSeq(day_log, makers[r].first_row, Len(day_log)),
                   LAMBDA row : row.run_id = r)

TypesOfCall(r) == [k \in 1..Len(RowsOfCall(r)) |-> RowsOfCall(r)[k].event_type]

AdmittedRows ==
    SelectSeq(day_log, LAMBDA row : row.event_type = "budget.check_passed"
                                     /\ row.created_at = UtcDay)

\* C38: with two alpha-maker runs interleaved in any order on the same event
\* log, the sum of the projected tokens (prompt estimate plus completion
\* budget) of all requests admitted with budget.check_passed within one UTC
\* day never exceeds max_tokens_per_day.
C38_AdmittedWithinDayCeiling ==
    TokensOf(AdmittedRows) <= day_budget.max_tokens_per_day

\* Each admitted request by itself was within the ceilings on the usage it read.
AdmittedOnItsOwnSnapshot ==
    \A r \in RunIds :
        (makers[r].pc \in {"generate", "parse", "emit", "done", "raised"}) =>
            /\ makers[r].result.usage.total_day_tokens + makers[r].result.prompt_tokens
                  + makers[r].result.completion_budget <= day_budget.max_tokens_per_day
            /\ makers[r].result.usage.total_run_tokens + makers[r].result.prompt_tokens
                  + makers[r].result.completion_budget <= day_budget.max_tokens_per_batch

\* Both runs read the usage before either recorded its own, both were admitted
\* and the usage recorded for the day is above the ceiling.
BothAdmittedOnStaleUsage ==
    /\ \A r \in RunIds : makers[r].pc = "done" /\ makers[r].result.usage.total_day_tokens = 0
    /\ AggregateUsageFromEvents(day_log, "run-a", UtcDay).total_day_tokens
          > day_budget.max_tokens_per_day

Blocked(r) == makers[r].pc = "blocked"

\* C40: when budget enforcement ends blocked in run_alpha_maker,
\* budget.check_failed and then budget.blocked are emitted, the generator is
\* never called and no agent.alpha_generated or llm.usage_point event is
\* emitted for that call; when it ends allowed, budget.check_passed is emitted
\* before the generator is called.
C40_BlockedNeverGenerates ==
    \A r \in RunIds :
        /\ Blocked(r) =>
              /\ Len(TypesOfCall(r)) >= 3
              /\ SubSeq(TypesOfCall(r), Len(TypesOfCall(r)) - 1, Len(TypesOfCall(r)))
                    = <<"budget.check_failed", "budget.blocked">>
              /\ makers[r].generator_calls = 0
              /\ Range(TypesOfCall(r)) \cap {"agent.alpha_generated", "llm.usage_point",
                                              "budget.check_passed"} = {}
        /\ makers[r].generator_calls > 0 =>
              /\ "budget.check_passed" \in Range(TypesOfCall(r))
              /\ Range(TypesOfCall(r)) \cap {"budget.check_failed", "budget.blocked"} = {}
        /\ makers[r].pc = "generate" =>
              /\ makers[r].generator_calls = 0
              /\ "budget.check_passed" \in Range(TypesOfCall(r))

\* One run is blocked on the day total after fallback steps while the other
\* was admitted and finished.
C40_Witness ==
    /\ Blocked("run-b")
    /\ "budget.fallback_applied" \in Range(TypesOfCall("run-b"))
    /\ makers["run-a"].pc = "done"
    /\ makers["run-a"].generator_calls = 2

====
